---- MODULE Spec2Model ----
(***************************************************************************)
(* A model of the DSL layer of SpotAPI: the name cache                      *)
(* (clautify/dsl/cache.py, class NameCache) and the command executor        *)
(* (clautify/dsl/executor.py, class SpotifyExecutor).                       *)
(*                                                                          *)
(* Python strings are modelled as sequences of one-character strings, so    *)
(* that lower(), strip(), split() and difflib's similarity ratio are        *)
(* computed on the characters as the code computes them.  The character     *)
(* written "NUL" stands for the byte \x00.                                  *)
(***************************************************************************)
EXTENDS Integers, Sequences, FiniteSets, TLC

VARIABLES
    _cache,      \* NameCache._cache: the forward map, an OrderedDict (oldest first)
    _reverse,    \* NameCache._reverse: identifier -> name as given (original case)
    _dirty,      \* NameCache._dirty
    _path,       \* NameCache._path: TRUE when a persistence location is set
    _max_size,   \* NameCache._max_size
    disk,        \* the durable record at _path
    last,        \* the last cache operation called, its arguments and its result
                 \* (found: resolve found the name, save wrote the record)
    evicted,     \* the forward keys the last operation evicted, in eviction order
    recency,     \* the forward keys by their last touch (oldest first), kept
                 \* from the operations called, not from the order of _cache
    _player,     \* SpotifyExecutor._player: 0 for None, else the handle of a Player
    players,     \* the number of Player objects constructed so far
    _song,       \* SpotifyExecutor._song is not None
    _artist,     \* SpotifyExecutor._artist is not None
    _max_volume, \* SpotifyExecutor._max_volume, in hundredths
    resetTo,     \* _player after the _reset_player of the last execute (NotReset: none)
    cmd,         \* the command of the last execute (NoCmd: none yet)
    calls,       \* the collaborator calls of the last execute, in order
    outcomes,    \* the error each _execute_once of the last execute ended with (NoErr: none)
    result,      \* the result the last execute returned
    error,       \* the error the last operation raised (NoErr: none)
    closeRaised, \* _player.ws.close() raised in the _reset_player of the last execute
    dev,         \* what the player reports: [volume, active, played], the device's
                 \* volume (0..65535), player.active_id and player.last_songs_played
    parsed       \* the last parse: [done, ok, cmd, text], text being the tokens parsed

cacheVars == <<_cache, _reverse, _dirty, _path, _max_size, disk, last, evicted, recency>>

execVarsButError == <<_player, players, _song, _artist, _max_volume, resetTo, cmd, calls,
                      outcomes, result, closeRaised, dev, parsed>>
execVars == <<execVarsButError, error>>

vars == <<cacheVars, execVars>>

(***************************************************************************)
(* Bounds of the model.                                                     *)
(***************************************************************************)
\* The largest ceiling (max_size) a cache is constructed with.
MaxSize == 2
\* The number of Player objects constructed in one behaviour.
MaxPlayers == 4
\* A collaborator fault is injected at one of the first MaxFaultAt calls of an attempt.
MaxFaultAt == 3

(***************************************************************************)
(* Program constants.                                                       *)
(***************************************************************************)
_MAX_SIZE == 5000
_SEP == <<"|", "|">>
\* The legacy separator "\x00".
NUL == <<"NUL">>
\* cutoff=0.85 of difflib.get_close_matches, in hundredths.
CutoffPct == 85

(***************************************************************************)
(* Strings.                                                                 *)
(***************************************************************************)
UpperCase == <<"A","B","C","D","E","F","G","H","I","J","K","L","M",
               "N","O","P","Q","R","S","T","U","V","W","X","Y","Z">>
LowerCase == <<"a","b","c","d","e","f","g","h","i","j","k","l","m",
               "n","o","p","q","r","s","t","u","v","w","x","y","z">>
\* The characters str.strip() removes (the ASCII ones).
WhiteSpace == {" ", "\t", "\n", "\r", "\f"}
\* The characters of the model in code-point order.
CodeOrder == <<"NUL", "\t", "\n", "\f", "\r", " ">>
             \o <<"0","1","2","3","4","5","6","7","8","9", ":">>
             \o UpperCase \o <<"_">> \o LowerCase \o <<"|">>

Min(a, b) == IF a <= b THEN a ELSE b

CodePointOf == [ch \in {CodeOrder[i] : i \in 1..Len(CodeOrder)} |->
                   CHOOSE i \in 1..Len(CodeOrder) : CodeOrder[i] = ch]
CodePoint(ch) == CodePointOf[ch]

\* x < y on Python strings: by code point, a proper prefix first.
StrLess(x, y) ==
    \E i \in 1..(Min(Len(x), Len(y)) + 1) :
        /\ \A j \in 1..(i - 1) : x[j] = y[j]
        /\ IF i > Len(x) THEN i <= Len(y)
           ELSE /\ i <= Len(y)
                /\ CodePoint(x[i]) < CodePoint(y[i])

LowerOf == [ch \in {UpperCase[i] : i \in 1..Len(UpperCase)} |->
               LowerCase[CHOOSE i \in 1..Len(UpperCase) : UpperCase[i] = ch]]
LowerChar(ch) == IF ch \in DOMAIN LowerOf THEN LowerOf[ch] ELSE ch

\* str.lower()
Lower(s) == [i \in 1..Len(s) |-> LowerChar(s[i])]

\* str.strip(): without its leading and trailing whitespace.
Strip(s) ==
    LET keep == {i \in 1..Len(s) : s[i] \notin WhiteSpace}
    IN  IF keep = {} THEN << >>
        ELSE LET lo == CHOOSE i \in keep : \A j \in keep : i <= j
                 hi == CHOOSE i \in keep : \A j \in keep : j <= i
             IN  SubSeq(s, lo, hi)

\* name.lower().strip(), the name part of a forward key.
NormalizeNoStrip(name) == Lower(name)
Normalize(name) == Strip(Lower(name))

\* The index where sep first occurs in s, 0 when it does not (sep in s).
Find(s, sep) ==
    LET hits == {i \in 1..(Len(s) - Len(sep) + 1) : SubSeq(s, i, i + Len(sep) - 1) = sep}
    IN  IF hits = {} THEN 0 ELSE CHOOSE i \in hits : \A j \in hits : i <= j

\* s.split(sep, 1) for a sep that occurs in s.
Split1(s, sep) ==
    LET i == Find(s, sep)
    IN  <<SubSeq(s, 1, i - 1), SubSeq(s, i + Len(sep), Len(s))>>

(***************************************************************************)
(* difflib: SequenceMatcher(None, a, b).ratio() and get_close_matches.      *)
(* The strings are far shorter than 200, so autojunk removes nothing.       *)
(***************************************************************************)
\* find_longest_match(alo, ahi, blo, bhi), 1-based with both ends included:
\* the longest block a[i..i+k-1] = b[j..j+k-1]; of the longest, the one
\* starting earliest in a, and of those the one starting earliest in b.
LongestMatch(a, b, alo, ahi, blo, bhi) ==
    LET blocks == {t \in (alo..ahi) \X (blo..bhi) \X (1..(ahi - alo + 1)) :
                      /\ t[1] + t[3] - 1 <= ahi
                      /\ t[2] + t[3] - 1 <= bhi
                      /\ SubSeq(a, t[1], t[1] + t[3] - 1) = SubSeq(b, t[2], t[2] + t[3] - 1)}
    IN  IF blocks = {} THEN <<alo, blo, 0>>
        ELSE CHOOSE t \in blocks : \A o \in blocks :
                \/ t[3] > o[3]
                \/ t[3] = o[3] /\ t[1] < o[1]
                \/ t[3] = o[3] /\ t[1] = o[1] /\ t[2] <= o[2]

\* The total size of get_matching_blocks(): the longest block, then the
\* same to its left and to its right.
RECURSIVE MatchSize(_, _, _, _, _, _)
MatchSize(a, b, alo, ahi, blo, bhi) ==
    IF alo > ahi \/ blo > bhi THEN 0
    ELSE LET m == LongestMatch(a, b, alo, ahi, blo, bhi)
         IN  IF m[3] = 0 THEN 0
             ELSE m[3] + MatchSize(a, b, alo, m[1] - 1, blo, m[2] - 1)
                       + MatchSize(a, b, m[1] + m[3], ahi, m[2] + m[3], bhi)

\* ratio() = 2.0 * M / T as the pair <<2M, T>>; 1.0 when both are empty.
Ratio(a, b) ==
    IF Len(a) + Len(b) = 0 THEN <<1, 1>>
    ELSE <<2 * MatchSize(a, b, 1, Len(a), 1, Len(b)), Len(a) + Len(b)>>

RatioAtLeastCutoff(r) == r[1] * 100 >= CutoffPct * r[2]

\* get_close_matches(word, possibilities, n=1, cutoff=0.85): the
\* possibilities x with ratio(x, word) >= cutoff (the two quick ratios are
\* upper bounds of ratio and reject nothing more), and of them the greatest
\* (score, x).  A sequence of at most one string.
get_close_matches(word, possibilities) ==
    LET good == {i \in 1..Len(possibilities) :
                    RatioAtLeastCutoff(Ratio(possibilities[i], word))}
        Better(i, j) ==
            LET ri == Ratio(possibilities[i], word)
                rj == Ratio(possibilities[j], word)
            IN  \/ ri[1] * rj[2] > rj[1] * ri[2]
                \/ /\ ri[1] * rj[2] = rj[1] * ri[2]
                   /\ \/ possibilities[i] = possibilities[j]
                      \/ StrLess(possibilities[j], possibilities[i])
    IN  IF good = {} THEN << >>
        ELSE <<possibilities[CHOOSE i \in good : \A j \in good : Better(i, j)]>>

(***************************************************************************)
(* collections.OrderedDict, as a sequence of [key, uri] entries.            *)
(***************************************************************************)
Has(d, key) == \E i \in 1..Len(d) : d[i].key = key
IndexOf(d, key) == CHOOSE i \in 1..Len(d) : d[i].key = key
Get(d, key) == d[IndexOf(d, key)].uri
\* d[key] = uri: in place for a key already there, at the end for a new one.
SetItem(d, key, uri) ==
    IF Has(d, key) THEN [d EXCEPT ![IndexOf(d, key)].uri = uri]
    ELSE Append(d, [key |-> key, uri |-> uri])
MoveToEnd(d, key) ==
    LET i == IndexOf(d, key)
    IN  SubSeq(d, 1, i - 1) \o SubSeq(d, i + 1, Len(d)) \o <<d[i]>>
KeySet(d) == {d[i].key : i \in 1..Len(d)}
Keys(d) == [i \in 1..Len(d) |-> d[i].key]
\* The dict as a mapping, without its order.
AsMap(d) == [k \in KeySet(d) |-> Get(d, k)]

\* A plain dict (the reverse index), as a function.
EmptyDict == [u \in {} |-> << >>]
DictPut(r, k, v) == [u \in (DOMAIN r) \cup {k} |-> IF u = k THEN v ELSE r[u]]
DictPop(r, k) == [u \in (DOMAIN r) \ {k} |-> r[u]]
\* What _reverse holds when the "reverse" of the record it was loaded from
\* is no object (an array, null, a string), and the test for the other case.
NotADict(type) == (<<"not a dict">> :> <<type>>)
IsDict(r) == <<"not a dict">> \notin DOMAIN r

(***************************************************************************)
(* NameCache.  A cache value is the record [cache, reverse, dirty,          *)
(* evicted]: the three fields the methods write, and the keys evicted.      *)
(***************************************************************************)
NoFile == [exists |-> FALSE, cache |-> << >>, reverse |-> EmptyDict]

\* __init__ before _load.
EmptyCache == [cache |-> << >>, reverse |-> EmptyDict, dirty |-> FALSE, evicted |-> << >>]

_evictNewest(c, max) ==
    IF Len(c.cache) > max
    THEN [c EXCEPT !.cache = SubSeq(c.cache, 1, max),
                   !.evicted = c.evicted \o Keys(SubSeq(c.cache, max + 1, Len(c.cache)))]
    ELSE c
\* while len(_cache) > _max_size: popitem(last=False); _reverse.pop(uri, None)
RECURSIVE _evict(_, _)
_evict(c, max) ==
    IF Len(c.cache) > max
    THEN _evict([c EXCEPT !.cache = Tail(c.cache),
                          !.reverse = DictPop(c.reverse, Head(c.cache).uri),
                          !.evicted = Append(c.evicted, Head(c.cache).key)], max)
    ELSE c

addNoMove(c, kind, name, uri, max) ==
    IF Len(name) > 0 /\ Len(uri) > 0
    THEN LET key == <<kind, Normalize(name)>>
         IN  _evict([c EXCEPT !.cache = SetItem(c.cache, key, uri),
                              !.reverse = DictPut(c.reverse, uri, name),
                              !.dirty = TRUE], max)
    ELSE c
addNoStrip(c, kind, name, uri, max) ==
    IF Len(name) > 0 /\ Len(uri) > 0
    THEN LET key == <<kind, NormalizeNoStrip(name)>>
         IN  _evict([c EXCEPT !.cache = MoveToEnd(SetItem(c.cache, key, uri), key),
                              !.reverse = DictPut(c.reverse, uri, name),
                              !.dirty = TRUE], max)
    ELSE c
\* The fields of the cache when add returns or raises: on a _reverse that
\* is no dict, self._reverse[uri] = name raises after the forward entry was
\* stored and moved, before _dirty is set and before _evict.
add(c, kind, name, uri, max) ==
    IF Len(name) > 0 /\ Len(uri) > 0
    THEN LET key == <<kind, Normalize(name)>>
         IN  IF IsDict(c.reverse)
             THEN _evict([c EXCEPT !.cache = MoveToEnd(SetItem(c.cache, key, uri), key),
                                  !.reverse = DictPut(c.reverse, uri, name),
                                  !.dirty = TRUE], max)
             ELSE [c EXCEPT !.cache = MoveToEnd(SetItem(c.cache, key, uri), key)]
    ELSE c
\* The exception that leaves add ("none": it returns).
addError(c, name, uri) ==
    IF Len(name) > 0 /\ Len(uri) > 0 /\ ~IsDict(c.reverse) THEN "TypeError" ELSE "none"

\* add_many ends with the first add that raises.
RECURSIVE add_many(_, _, _, _)
add_many(c, kind, items, max) ==
    IF items = << >> THEN c
    ELSE IF addError(c, Head(items)[1], Head(items)[2]) # "none"
    THEN add(c, kind, Head(items)[1], Head(items)[2], max)
    ELSE add_many(add(c, kind, Head(items)[1], Head(items)[2], max), kind, Tail(items), max)

\* The names of the entries of one kind, in the order of the dict.
RECURSIVE Candidates(_, _)
Candidates(d, kind) ==
    IF d = << >> THEN << >>
    ELSE (IF Head(d).key[1] = kind THEN <<Head(d).key[2]>> ELSE << >>)
         \o Candidates(Tail(d), kind)

\* resolve returns [cache, found, uri, key]: the forward map after the call,
\* whether an identifier is returned (not None), the identifier, and the
\* forward key it was read from.
NotFound(d) == [cache |-> d, found |-> FALSE, uri |-> << >>, key |-> << >>]
Found(d, key) == [cache |-> MoveToEnd(d, key), found |-> TRUE, uri |-> Get(d, key), key |-> key]

resolveAnyKind(d, kind, name) ==
    LET key == <<kind, Normalize(name)>>
    IN  IF Has(d, key) THEN Found(d, key)
        ELSE LET matches == get_close_matches(Normalize(name), [i \in 1..Len(d) |-> d[i].key[2]])
             IN  IF matches # << >>
                 THEN Found(d, d[CHOOSE i \in 1..Len(d) : d[i].key[2] = matches[1]].key)
                 ELSE NotFound(d)
resolveFuzzyNoMove(d, kind, name) ==
    LET key == <<kind, Normalize(name)>>
    IN  IF Has(d, key) THEN Found(d, key)
        ELSE LET matches == get_close_matches(Normalize(name), Candidates(d, kind))
             IN  IF matches # << >>
                 THEN [Found(d, <<kind, matches[1]>>) EXCEPT !.cache = d]
                 ELSE NotFound(d)
resolve(d, kind, name) ==
    LET key == <<kind, Normalize(name)>>
    IN  IF Has(d, key) THEN Found(d, key)
        ELSE LET candidates == Candidates(d, kind)
             IN  IF candidates = << >> THEN NotFound(d)
                 ELSE LET matches == get_close_matches(Normalize(name), candidates)
                      IN  IF matches # << >>
                          THEN Found(d, <<kind, matches[1]>>)
                          ELSE NotFound(d)

\* name_for_uri: self._reverse.get(uri), and the exception that leaves it
\* ("none": it returns): a _reverse that is no dict has no get.
name_for_uri(r, uri) == IF IsDict(r) /\ uri \in DOMAIN r THEN <<r[uri]>> ELSE << >>
name_for_uriError(r) == IF IsDict(r) THEN "none" ELSE "AttributeError"

\* The joined key of the durable record: f"{k}{_SEP}{v}".
JoinKey(key, sep) == key[1] \o sep \o key[2]
RECURSIVE JoinAll(_, _)
JoinAll(d, sep) ==
    IF d = << >> THEN << >>
    ELSE LET rest == JoinAll(SubSeq(d, 1, Len(d) - 1), sep)
         IN  SetItem(rest, JoinKey(d[Len(d)].key, sep), d[Len(d)].uri)

saveAlways(c, path, file) ==
    IF ~path THEN [disk |-> file, dirty |-> c.dirty, wrote |-> FALSE]
    ELSE [disk |-> [exists |-> TRUE, cache |-> JoinAll(c.cache, _SEP), reverse |-> c.reverse],
          dirty |-> FALSE, wrote |-> TRUE]
\* save: the record at the location afterwards, [exists, cache, reverse],
\* the dirty flag, and whether the record was written.
save(c, path, file) ==
    IF ~path \/ ~c.dirty THEN [disk |-> file, dirty |-> c.dirty, wrote |-> FALSE]
    ELSE [disk |-> [exists |-> TRUE, cache |-> JoinAll(c.cache, _SEP), reverse |-> c.reverse],
          dirty |-> FALSE, wrote |-> TRUE]

\* The forward key a joined key is read as: <<TRUE, kind, name>>, or
\* <<FALSE>> for a key without separator, which _load skips.
ParseKey(key_str) ==
    IF Find(key_str, _SEP) > 0 THEN <<TRUE>> \o Split1(key_str, _SEP)
    ELSE IF Find(key_str, NUL) > 0 THEN <<TRUE>> \o Split1(key_str, NUL)
    ELSE <<FALSE>>

RECURSIVE LoadEntries(_)
LoadEntries(entries) ==
    IF entries = << >> THEN << >>
    ELSE LET rest == LoadEntries(SubSeq(entries, 1, Len(entries) - 1))
             e == entries[Len(entries)]
             p == ParseKey(e.key)
         IN  IF p[1] THEN SetItem(rest, <<p[2], p[3]>>, e.uri) ELSE rest

\* NameCache(path, max_size): __init__ and _load of the record at path.
_loadNoEvict(path, file, max) ==
    IF ~path \/ ~file.exists THEN EmptyCache
    ELSE [cache |-> LoadEntries(file.cache), reverse |-> file.reverse,
          dirty |-> FALSE, evicted |-> << >>]
\* A record is [exists, cache, reverse], the JSON object save writes, or one
\* of: a text that is no JSON ("text" in its domain), a JSON value that is
\* no object ("top"), an object whose "cache" is no object ("cache_is"), an
\* object whose "reverse" is no object ("reverse_is"); "cache" or "reverse"
\* may be missing.
\* raw.get("cache", {})
RawCache(file) == IF "cache" \in DOMAIN file THEN file.cache ELSE << >>
\* raw.get("reverse", {})
RawReverse(file) ==
    IF "reverse" \in DOMAIN file THEN file.reverse
    ELSE IF "reverse_is" \in DOMAIN file THEN NotADict(file.reverse_is)
    ELSE EmptyDict

\* The fields of the cache when _load returns or raises.
_load(path, file, max) ==
    IF ~path \/ ~file.exists THEN EmptyCache
    ELSE IF "text" \in DOMAIN file THEN EmptyCache
    ELSE IF "top" \in DOMAIN file \/ "cache_is" \in DOMAIN file THEN EmptyCache
    ELSE IF "reverse_is" \in DOMAIN file
    THEN IF Len(LoadEntries(RawCache(file))) > max
         THEN [cache |-> Tail(LoadEntries(RawCache(file))), reverse |-> RawReverse(file),
               dirty |-> FALSE, evicted |-> <<Head(LoadEntries(RawCache(file))).key>>]
         ELSE [cache |-> LoadEntries(RawCache(file)), reverse |-> RawReverse(file),
               dirty |-> FALSE, evicted |-> << >>]
    ELSE _evict([cache |-> LoadEntries(RawCache(file)), reverse |-> RawReverse(file),
                 dirty |-> FALSE, evicted |-> << >>], max)

\* The exception that escapes _load ("none": it returns).  JSONDecodeError,
\* ValueError and KeyError are caught; raw.get and .items() of a value that
\* is no dict raise AttributeError, and so does .pop of a value without pop;
\* .pop(uri, None) of a list raises TypeError.
_loadError(path, file, max) ==
    IF ~path \/ ~file.exists THEN "none"
    ELSE IF "text" \in DOMAIN file THEN "none"
    ELSE IF "top" \in DOMAIN file \/ "cache_is" \in DOMAIN file THEN "AttributeError"
    ELSE IF "reverse_is" \in DOMAIN file /\ Len(LoadEntries(RawCache(file))) > max
    THEN IF file.reverse_is = "array" THEN "TypeError" ELSE "AttributeError"
    ELSE "none"

(***************************************************************************)
(* The inputs the cache operations are called with.                         *)
(***************************************************************************)
track == <<"t","r","a","c","k">>
artist == <<"a","r","t","i","s","t">>
Kinds == {track, artist}

abc == <<"a","b","c">>
ABc == <<" ","A","B","c"," ">>
abcd == <<"a","b","c","d">>
xy == <<"x","y">>
a_b == <<"a","|","|","b">>
u1 == <<"u","1">>
u2 == <<"u","2">>

AddInputs ==
    ({track} \X {abc, ABc, abcd, xy} \X {u1, u2})
    \cup {<<artist, abcd, u1>>, <<track, << >>, u1>>, <<track, abc, << >> >>}
ResolveInputs == ({track} \X {abc, ABc, abcd, xy}) \cup {<<artist, abc>>}
\* The batches add_many is called with.
Batches == {<< >>, <<<<abc, u1>>, <<xy, u2>>>>, <<<<xy, u1>>, <<abc, u1>>, <<xy, u2>>>>}
PersistBatches == {<<<<a_b, u1>>, <<abc, u2>>>>}

PersistAddInputs == {<<track, ABc, u1>>, <<track, a_b, u2>>, <<track, a_b, u1>>, <<artist, abc, u2>>}
PersistResolveInputs == {<<track, abc>>, <<track, a_b>>}

(***************************************************************************)
(* The cache operations as actions.                                         *)
(***************************************************************************)
\* Exceptions: [type, cause, msg, command]; cause is the type of __cause__,
\* command tells whether the DSLError carries the command.
NoErr == [type |-> "none", cause |-> "none", msg |-> "", command |-> FALSE, detail |-> << >>]
Exc(type) == [type |-> type, cause |-> "none", msg |-> "boom", command |-> FALSE, detail |-> << >>]

Now == [cache |-> _cache, reverse |-> _reverse, dirty |-> _dirty, evicted |-> << >>]

Op(name, kind, n, u, found) == [op |-> name, kind |-> kind, name |-> n, uri |-> u, found |-> found]

\* The touch order after key is touched.
Touch(order, key) ==
    LET others == {i \in 1..Len(order) : order[i] # key}
        F[i \in 0..Len(order)] ==
            IF i = 0 THEN << >>
            ELSE IF i \in others THEN Append(F[i - 1], order[i]) ELSE F[i - 1]
    IN  Append(F[Len(order)], key)
\* The touch order without the keys of gone.
Without(order, gone) ==
    LET F[i \in 0..Len(order)] ==
            IF i = 0 THEN << >>
            ELSE IF \E j \in 1..Len(gone) : gone[j] = order[i] THEN F[i - 1]
                 ELSE Append(F[i - 1], order[i])
    IN  F[Len(order)]

Install(c) ==
    /\ _cache' = c.cache
    /\ _reverse' = c.reverse
    /\ _dirty' = c.dirty
    /\ evicted' = c.evicted

Add(inputs) ==
    \E in \in inputs :
        \E c \in {add(Now, in[1], in[2], in[3], _max_size)}, e \in {addError(Now, in[2], in[3])} :
            /\ Install(c)
            /\ last' = Op("add", in[1], in[2], in[3], FALSE)
            /\ recency' = IF Len(in[2]) > 0 /\ Len(in[3]) > 0
                          THEN Without(Touch(recency, <<in[1], Normalize(in[2])>>), c.evicted)
                          ELSE recency
            /\ error' = IF e = "none" THEN NoErr ELSE Exc(e)
            /\ UNCHANGED <<_path, _max_size, disk, execVarsButError>>

\* The touch order after add_many: each item touches its key, and the keys
\* its add evicts leave the order.
RECURSIVE TouchAll(_, _, _, _, _)
TouchAll(order, c, kind, items, max) ==
    IF items = << >> THEN order
    ELSE LET n == Head(items)[1]
             u == Head(items)[2]
             c1 == add([c EXCEPT !.evicted = << >>], kind, n, u, max)
         IN  IF addError(c, n, u) # "none" THEN Touch(order, <<kind, Normalize(n)>>)
             ELSE TouchAll(IF Len(n) > 0 /\ Len(u) > 0
                           THEN Without(Touch(order, <<kind, Normalize(n)>>), c1.evicted)
                           ELSE order,
                           c1, kind, Tail(items), max)

AddMany(batches) ==
    \E items \in batches :
        \E c \in {add_many(Now, track, items, _max_size)} :
            /\ Install(c)
            /\ last' = [op |-> "add_many", kind |-> track, name |-> << >>, uri |-> << >>,
                        found |-> FALSE, items |-> items]
            /\ recency' = TouchAll(recency, Now, track, items, _max_size)
            /\ error' = IF \E i \in 1..Len(items) : addError(Now, items[i][1], items[i][2]) # "none"
                        THEN Exc("TypeError") ELSE NoErr
            /\ UNCHANGED <<_path, _max_size, disk, execVarsButError>>

Resolve(inputs) ==
    \E in \in inputs :
        \E r \in {resolve(_cache, in[1], in[2])} :
            /\ _cache' = r.cache
            /\ evicted' = << >>
            /\ last' = Op("resolve", in[1], in[2], r.uri, r.found)
            /\ recency' = IF r.found THEN Touch(recency, r.key) ELSE recency
            /\ UNCHANGED <<_reverse, _dirty, _path, _max_size, disk, execVars>>

Save ==
    \E s \in {save(Now, _path, disk)} :
        /\ disk' = s.disk
        /\ _dirty' = s.dirty
        /\ evicted' = << >>
        /\ last' = Op("save", << >>, << >>, << >>, s.wrote)
        /\ UNCHANGED <<_cache, _reverse, _path, _max_size, recency, execVars>>

\* A new NameCache is constructed at the same location, with any ceiling.
Load ==
    \E m \in 1..MaxSize :
        \E c \in {_load(_path, disk, m)} :
            /\ Install(c)
            /\ _max_size' = m
            /\ last' = Op("load", << >>, << >>, << >>, FALSE)
            /\ recency' = Keys(c.cache)
            /\ UNCHANGED <<_path, disk, execVars>>

(***************************************************************************)
(* SpotifyExecutor.  One attempt (_execute_once) is computed on an          *)
(* execution record: the fields of the executor and of its cache the        *)
(* attempt reads and writes, the collaborator calls it made, and the error  *)
(* it is unwinding with (NoErr while it runs).  A collaborator call is      *)
(* counted; the call numbered fault.at raises an exception of fault.kind.   *)
(***************************************************************************)
album == <<"a","l","b","u","m">>
playlist == <<"p","l","a","y","l","i","s","t">>
\* The types of search and library.
tracks == track \o <<"s">>
artists == artist \o <<"s">>
albums == album \o <<"s">>
playlists == playlist \o <<"s">>
\* s.rstrip(chars)
RStrip(s, chars) ==
    LET keep == {i \in 1..Len(s) : s[i] \notin chars}
    IN  IF keep = {} THEN << >>
        ELSE SubSeq(s, 1, CHOOSE i \in keep : \A j \in keep : j <= i)
spotify == <<"s","p","o","t","i","f","y">>
colon == <<":">>

StartsWith(s, prefix) == Len(s) >= Len(prefix) /\ SubSeq(s, 1, Len(prefix)) = prefix

\* s.split(sep)
RECURSIVE Split(_, _)
Split(s, sep) ==
    IF Find(s, sep) = 0 THEN <<s>>
    ELSE <<Split1(s, sep)[1]>> \o Split(Split1(s, sep)[2], sep)

_extract_id(uri_or_name, kind) ==
    LET prefix == spotify \o colon \o kind \o colon
    IN  IF StartsWith(uri_or_name, prefix)
        THEN SubSeq(uri_or_name, Len(prefix) + 1, Len(uri_or_name))
        ELSE uri_or_name

_is_uri(target) == StartsWith(target, spotify \o colon)

_uri_kind(uri) ==
    LET parts == Split(uri, colon)
    IN  IF Len(parts) >= 3 THEN parts[2] ELSE track

\* action -> (executor property, method name, uri kind)
_SIMPLE_TARGET_ACTIONS ==
    [like |-> <<"song", "like_song", track>>,
     unlike |-> <<"song", "unlike_song", track>>,
     follow |-> <<"artist", "follow", artist>>,
     unfollow |-> <<"artist", "unfollow", artist>>]

\* action -> playlist method name
_PLAYLIST_ACTIONS ==
    [save |-> "add_to_library",
     unsave |-> "remove_from_library",
     playlist_delete |-> "delete_playlist"]

\* The actions with an _action_<name> method and the queries with a
\* _query_<name> method.
ActionHandlers == {"play", "skip", "seek", "queue", "playlist_add", "playlist_remove",
                   "playlist_create"}
QueryHandlers == {"search", "now_playing", "get_queue", "get_devices", "library", "info",
                  "history", "recommend"}

\* dev.volume ranges over 0..65535.
DeviceVolumeMax == 65535
\* Volumes are percentages: volume / 100.
Percent == 100

\* detail holds the values the message is formatted with.
DSLErrorWith(msg, command, detail) ==
    [type |-> "DSLError", cause |-> "none", msg |-> msg, command |-> command, detail |-> detail]
DSLError(msg, command) == DSLErrorWith(msg, command, << >>)
\* raise DSLError(f"{type(e).__name__}: {e}", command=cmd) from e
Wrapped(e) ==
    [type |-> "DSLError", cause |-> e.type, msg |-> e.msg, command |-> TRUE, detail |-> <<e.type>>]

NoResult == [status |-> "none"]
NoCmd == [none |-> TRUE]
NoFault == [at |-> 0, kind |-> "none"]
NotReset == -1

\* No execute was called yet.
NoParse == [done |-> FALSE, ok |-> FALSE, cmd |-> NoCmd, text |-> << >>]
ExecIdle ==
    /\ parsed = NoParse
    /\ cmd = NoCmd
    /\ calls = << >>
    /\ outcomes = << >>
    /\ result = NoResult
    /\ error = NoErr
    /\ resetTo = NotReset
    /\ closeRaised = FALSE

\* A NameCache on its own: no executor.
NoExecutor ==
    /\ dev = [volume |-> 32768, active |-> "dev0", played |-> << >>]
    /\ _player = 0
    /\ players = 0
    /\ _song = FALSE
    /\ _artist = FALSE
    /\ _max_volume = Percent
    /\ ExecIdle

\* The value of a one-element set: The({e(x) : x \in {v}}) computes v once
\* and e on its value.
The(S) == CHOOSE x \in S : TRUE

Failed(es) == es.err.type # "none"
Raise(state, e) ==
    The({IF Failed(es) THEN es ELSE [es EXCEPT !.err = e] : es \in {state}})
Return(state, r) ==
    The({IF Failed(es) THEN es ELSE [es EXCEPT !.res = r] : es \in {state}})

\* One call of a collaborator: logged, and raising when it is the faulty one.
Invoke(state, obj, m, arg, handle) ==
    The({IF Failed(es) THEN es
         ELSE [es EXCEPT
                  !.n = es.n + 1,
                  !.calls = Append(es.calls, [attempt |-> es.attempt, obj |-> obj, m |-> m,
                                              arg |-> arg, handle |-> handle,
                                              ok |-> es.fault.at # es.n + 1]),
                  !.err = IF es.fault.at = es.n + 1 THEN Exc(es.fault.kind) ELSE es.err]
         : es \in {state}})

\* The property player: Player(self._login) when none is cached.
playerAlways(state) ==
    The({IF Failed(es) THEN es
         ELSE [Invoke(es, "Player", "__init__", << >>, es.players + 1)
                  EXCEPT !.player = IF es.fault.at = es.n + 1 THEN 0 ELSE es.players + 1,
                         !.players = es.players + 1]
         : es \in {state}})
player(state) ==
    The({IF Failed(es) \/ es.player # 0 THEN es
         ELSE [Invoke(es, "Player", "__init__", << >>, es.players + 1)
                  EXCEPT !.player = IF es.fault.at = es.n + 1 THEN 0 ELSE es.players + 1,
                         !.players = es.players + 1]
         : es \in {state}})

\* self.player.<m>(<arg>), on the player the property returned
CallOn(state, m, arg) == The({Invoke(es, "player", m, arg, es.player) : es \in {state}})
CallPlayer(es, m, arg) == CallOn(player(es), m, arg)

\* The property song: a sentinel PrivatePlaylist and a Song, once.
song(state) ==
    The({IF Failed(es) \/ es.song THEN es
         ELSE [Invoke(Invoke(es, "PrivatePlaylist", "__init__", <<"__sentinel__">>, 0),
                      "Song", "__init__", << >>, 0)
                  EXCEPT !.song = (es.fault.at \notin {es.n + 1, es.n + 2})]
         : es \in {state}})

\* The property artist: an Artist, once.
artistProp(state) ==
    The({IF Failed(es) \/ es.artist THEN es
         ELSE [Invoke(es, "Artist", "__init__", << >>, 0)
                  EXCEPT !.artist = (es.fault.at # es.n + 1)]
         : es \in {state}})

\* _playlist_for(target).<m>(): a fresh PrivatePlaylist per call.
CallPlaylistFor(es, target, m, arg) ==
    Invoke(Invoke(es, "PrivatePlaylist", "__init__", <<_extract_id(target, playlist)>>, 0),
           "playlist", m, arg, 0)

\* The device directory of the player (player.device_ids.devices, in dict
\* order), its active device and its own device id.
Den == <<"D","e","n">>
Lab == <<"L","a","b">>
Devices ==
    <<[key |-> "dev0", name |-> Den, device_id |-> "dev0", volume |-> 32768],
      [key |-> "dev1", name |-> Lab, device_id |-> "dev1", volume |-> 65535]>>
ActiveId == "dev0"
\* The directory when the device reports the volume d.volume.
DevicesAt(d) == [Devices EXCEPT ![1].volume = d.volume]
PlayerDeviceId == "dev0"

\* _resolve_device_id: <<TRUE, device_id>> of the first device whose name
\* equals name ignoring case, <<FALSE>> when there is none.
_resolve_device_idCaseSensitive(name) ==
    LET hits == {i \in 1..Len(Devices) : Devices[i].name = name}
    IN  IF hits = {} THEN <<FALSE>>
        ELSE <<TRUE, Devices[CHOOSE i \in hits : \A j \in hits : i <= j].device_id>>
_resolve_device_id(name) ==
    LET hits == {i \in 1..Len(Devices) : Lower(Devices[i].name) = Lower(name)}
    IN  IF hits = {} THEN <<FALSE>>
        ELSE <<TRUE, Devices[CHOOSE i \in hits : \A j \in hits : i <= j].device_id>>

\* _resolve_uri: the identifier in es.uri, or the not-found DSLError.
_resolve_uriPassThrough(state, kind, name) ==
    The({IF Failed(es) THEN es
         ELSE The({IF r.found
                   THEN [es EXCEPT !.c.cache = r.cache, !.order = Touch(es.order, r.key),
                                   !.uri = r.uri]
                   ELSE [es EXCEPT !.uri = name]
                   : r \in {resolve(es.c.cache, kind, name)}})
         : es \in {state}})

_resolve_uri(state, kind, name) ==
    The({IF Failed(es) THEN es
         ELSE The({IF r.found
                   THEN [es EXCEPT !.c.cache = r.cache, !.order = Touch(es.order, r.key),
                                   !.uri = r.uri]
                   ELSE Raise(es, DSLErrorWith("not found. Use search first to find it.", TRUE, <<name>>))
                   : r \in {resolve(es.c.cache, kind, name)}})
         : es \in {state}})

Get0(c, field, default) == IF field \in DOMAIN c THEN c[field] ELSE default
Max(a, b) == IF a >= b THEN a ELSE b
Abs(n) == IF n >= 0 THEN n ELSE -n

\* Volume fractions are counted in units of 1 / (DeviceVolumeMax * Percent).
ApplyVolumeNoCheck(state, c) ==
    The({IF Failed(es) \/ "volume" \notin DOMAIN c THEN es
         ELSE CallPlayer(es, "set_volume",
                         <<Min(c.volume * DeviceVolumeMax, es.max_volume * DeviceVolumeMax)>>)
         : es \in {state}})
ApplyVolumeNoCeiling(state, c) ==
    The({IF Failed(es) \/ "volume" \notin DOMAIN c THEN es
         ELSE IF ~(0 <= c.volume /\ c.volume <= Percent)
              THEN Raise(es, DSLErrorWith("Volume must be 0-100", FALSE, <<c.volume>>))
              ELSE CallPlayer(es, "set_volume", <<c.volume * DeviceVolumeMax>>)
         : es \in {state}})
ApplyVolume(state, c) ==
    The({IF Failed(es) \/ "volume" \notin DOMAIN c THEN es
         ELSE IF ~(0 <= c.volume /\ c.volume <= Percent)
              THEN Raise(es, DSLErrorWith("Volume must be 0-100", FALSE, <<c.volume>>))
              ELSE CallPlayer(es, "set_volume",
                              <<Min(c.volume * DeviceVolumeMax, es.max_volume * DeviceVolumeMax)>>)
         : es \in {state}})

ApplyVolumeRelNoFloor(state, c) ==
    The({IF Failed(es) \/ "volume_rel" \notin DOMAIN c THEN es
         ELSE The({LET devs == {i \in 1..Len(e1.devices) : e1.devices[i].key = e1.active}
                       current == e1.devices[CHOOSE i \in devs : TRUE].volume * Percent
                       new_vol == Min(e1.max_volume * DeviceVolumeMax,
                                      current + c.volume_rel * DeviceVolumeMax)
                   IN  IF Failed(e1) THEN e1
                       ELSE IF devs = {}
                       THEN Raise(e1, DSLError("Cannot determine current volume for relative adjustment",
                                               FALSE))
                       ELSE CallPlayer(e1, "set_volume", <<new_vol>>)
                   : e1 \in {player(es)}})
         : es \in {state}})
ApplyVolumeRel(state, c) ==
    The({IF Failed(es) \/ "volume_rel" \notin DOMAIN c THEN es
         ELSE The({LET devs == {i \in 1..Len(e1.devices) : e1.devices[i].key = e1.active}
                       current == e1.devices[CHOOSE i \in devs : TRUE].volume * Percent
                       new_vol == Max(0, Min(e1.max_volume * DeviceVolumeMax,
                                             current + c.volume_rel * DeviceVolumeMax))
                   IN  IF Failed(e1) THEN e1
                       ELSE IF devs = {}
                       THEN Raise(e1, DSLError("Cannot determine current volume for relative adjustment",
                                               FALSE))
                       ELSE CallPlayer(e1, "set_volume", <<new_vol>>)
                   : e1 \in {player(es)}})
         : es \in {state}})

ApplyMode(state, c) ==
    The({IF Failed(es) \/ "mode" \notin DOMAIN c THEN es
         ELSE CallPlayer(CallPlayer(es, "set_shuffle", <<c.mode = "shuffle">>),
                         "repeat_track", <<c.mode = "repeat">>)
         : es \in {state}})

ApplyDevice(state, c) ==
    The({IF Failed(es) \/ "device" \notin DOMAIN c THEN es
         ELSE The({LET d == _resolve_device_id(c.device)
                   IN  IF Failed(e1) THEN e1
                       ELSE IF ~d[1]
                       THEN Raise(e1, DSLErrorWith("Device not found. Available: ...", FALSE,
                                                   <<c.device, [i \in 1..Len(Devices) |->
                                                                   Devices[i].name]>>))
                       ELSE CallPlayer(e1, "transfer_player", <<PlayerDeviceId, d[2]>>)
                   : e1 \in {player(es)}})
         : es \in {state}})

_apply_state_modifiersDeviceFirst(es, c) ==
    ApplyMode(ApplyVolumeRel(ApplyVolume(ApplyDevice(es, c), c), c), c)
_apply_state_modifiers(es, c) ==
    ApplyDevice(ApplyMode(ApplyVolumeRel(ApplyVolume(es, c), c), c), c)

\* The result of _action_play, with the fields of its branch.
PlayResultLiteralOnly(state, c, kind, fields) ==
    The({Return(es, [k \in {"status", "action", "kind", "target"} \cup (fields \ {"resolved_uri"}) |->
                        CASE k = "status" -> "ok"
                          [] k = "action" -> "play"
                          [] k = "kind" -> kind
                          [] k = "target" -> c.target
                          [] k = "context" -> c.context])
         : es \in {state}})
PlayResult(state, c, kind, fields) ==
    The({Return(es, [k \in {"status", "action", "kind", "target"} \cup fields |->
                        CASE k = "status" -> "ok"
                          [] k = "action" -> "play"
                          [] k = "kind" -> kind
                          [] k = "target" -> c.target
                          [] k = "context" -> c.context
                          [] k = "resolved_uri" -> es.uri])
         : es \in {state}})

_action_playCombined(state, c) ==
    The({IF Failed(e1) THEN e1
         ELSE PlayResult(CallPlayer(CallPlayer(CallPlayer(e1, "play_context", <<e1.uri>>),
                                               "add_to_queue", <<e1.uri>>),
                                    "skip_next", << >>),
                         c, Get0(c, "kind", track), {})
         : e1 \in {IF _is_uri(c.target) THEN [state EXCEPT !.uri = c.target]
                   ELSE _resolve_uri(state, Get0(c, "kind", track), c.target)}})
_action_play(state, c) ==
    The({LET target == c.target
             context == Get0(c, "context", << >>)
             kind == IF _is_uri(target) THEN _uri_kind(target) ELSE Get0(c, "kind", track)
             more == IF e1.uri # target THEN {"resolved_uri"} ELSE {}
         IN  IF Failed(e1) THEN e1
             ELSE IF kind \in {album, playlist}
             THEN PlayResult(CallPlayer(e1, "play_context", <<e1.uri>>), c, kind, more)
             ELSE IF Len(context) > 0
             THEN IF ~_is_uri(context)
                  THEN Raise(e1, DSLError("play with \"in\" context requires a playlist URI", TRUE))
                  ELSE PlayResult(CallPlayer(e1, "play_track", <<e1.uri, context>>), c, kind,
                                  more \cup {"context"})
             ELSE PlayResult(CallPlayer(CallPlayer(e1, "add_to_queue", <<e1.uri>>),
                                        "skip_next", << >>),
                             c, kind, more)
         : e1 \in {IF _is_uri(c.target) THEN [state EXCEPT !.uri = c.target]
                   ELSE _resolve_uri(state, Get0(c, "kind", track), c.target)}})

RECURSIVE Repeat(_, _, _)
Repeat(es, m, k) == IF k = 0 THEN es ELSE Repeat(CallOn(es, m, << >>), m, k - 1)

_action_skipForwardOnly(es, c) ==
    LET n == Get0(c, "n", 1)
    IN  Return(Repeat(player(es), "skip_next", Abs(n)),
               [status |-> "ok", action |-> "skip", n |-> n])

\* fn is read from self.player before the loop, also when the loop is empty.
_action_skip(es, c) ==
    LET n == Get0(c, "n", 1)
    IN  Return(Repeat(player(es), IF n >= 0 THEN "skip_next" ELSE "skip_prev", Abs(n)),
               [status |-> "ok", action |-> "skip", n |-> n])

_action_seek(es, c) ==
    Return(CallPlayer(es, "seek_to", <<c.position_ms>>),
           [status |-> "ok", action |-> "seek", position_ms |-> c.position_ms])

_action_queue(state, c) ==
    The({Return(CallPlayer(e1, "add_to_queue", <<e1.uri>>),
                [status |-> "ok", action |-> "queue", target |-> c.target])
         : e1 \in {IF _is_uri(c.target) THEN [state EXCEPT !.uri = c.target]
                   ELSE _resolve_uri(state, track, c.target)}})

\* PrivatePlaylist(login, id), Song(playlist=pl), then the method.
PlaylistSong(es, c, m) ==
    Invoke(Invoke(Invoke(es, "PrivatePlaylist", "__init__", <<_extract_id(c.playlist, playlist)>>, 0),
                  "Song", "__init__", << >>, 0),
           "song", m, <<_extract_id(c.track, track)>>, 0)

_action_playlist_add(es, c) ==
    Return(PlaylistSong(es, c, "add_song_to_playlist"),
           [status |-> "ok", action |-> "playlist_add", track |-> c.track, playlist |-> c.playlist])

_action_playlist_remove(es, c) ==
    Return(PlaylistSong(es, c, "remove_song_from_playlist"),
           [status |-> "ok", action |-> "playlist_remove", track |-> c.track, playlist |-> c.playlist])

\* The identifier create_playlist returns.
NewPlaylistId == <<"n","e","w">>
_action_playlist_create(es, c) ==
    Return(Invoke(Invoke(es, "PrivatePlaylist", "__init__", << >>, 0),
                  "playlist", "create_playlist", <<c.name>>, 0),
           [status |-> "ok", action |-> "playlist_create", name |-> c.name,
            playlist_id |-> NewPlaylistId])

Modifiers == {"volume", "volume_rel", "mode", "device"}

\* _dispatch_action up to the result of the action itself.
Primary(es, c) ==
    LET action == c.action
    IN  IF action \in DOMAIN _SIMPLE_TARGET_ACTIONS
        THEN LET row == _SIMPLE_TARGET_ACTIONS[action]
             IN  Return(Invoke(IF row[1] = "song" THEN song(es) ELSE artistProp(es),
                               row[1], row[2], <<_extract_id(c.target, row[3])>>, 0),
                        [status |-> "ok", action |-> action, target |-> c.target])
        ELSE IF action \in DOMAIN _PLAYLIST_ACTIONS
        THEN Return(CallPlaylistFor(es, c.target, _PLAYLIST_ACTIONS[action], << >>),
                    [status |-> "ok", action |-> action, target |-> c.target])
        ELSE IF action \in {"pause", "resume"}
        THEN Return(CallPlayer(es, action, << >>), [status |-> "ok", action |-> action])
        ELSE IF action = "set"
        THEN Return(es, [k \in {"status", "action"} \cup (Modifiers \cap DOMAIN c) |->
                            IF k = "status" THEN "ok" ELSE c[k]])
        ELSE IF action \notin ActionHandlers
        THEN Raise(es, DSLErrorWith("Unknown action", TRUE, <<action>>))
        ELSE CASE action = "play" -> _action_play(es, c)
               [] action = "skip" -> _action_skip(es, c)
               [] action = "seek" -> _action_seek(es, c)
               [] action = "queue" -> _action_queue(es, c)
               [] action = "playlist_add" -> _action_playlist_add(es, c)
               [] action = "playlist_remove" -> _action_playlist_remove(es, c)
               [] action = "playlist_create" -> _action_playlist_create(es, c)

\* result["volume"] = min(cmd["volume"], self._max_volume * 100)
Annotate(state, c) ==
    The({IF Failed(es) \/ "volume" \notin DOMAIN c \/ "volume" \notin DOMAIN es.res THEN es
         ELSE [es EXCEPT !.res.volume = Min(c.volume, es.max_volume)]
         : es \in {state}})

_dispatch_actionModifiersFirst(es, c) == Annotate(Primary(_apply_state_modifiers(es, c), c), c)
_dispatch_action(es, c) == Annotate(_apply_state_modifiers(Primary(es, c), c), c)

_query_get_devices(es, c) ==
    Return(player(es), [status |-> "ok", query |-> "get_devices", data |-> es.devices])

\* self._cache.add(kind, name, uri) inside a command, raising what add
\* raises.
CacheAdd(state, kind, name, uri) ==
    The({IF Failed(es) THEN es
         ELSE The({[es EXCEPT !.c = [c1 EXCEPT !.evicted = << >>],
                              !.order = IF Len(name) > 0 /\ Len(uri) > 0
                                        THEN Without(Touch(es.order, <<kind, Normalize(name)>>),
                                                     c1.evicted)
                                        ELSE es.order,
                              !.err = IF addError(es.c, name, uri) # "none"
                                      THEN Exc(addError(es.c, name, uri)) ELSE es.err]
                   : c1 \in {add([es.c EXCEPT !.evicted = << >>], kind, name, uri, _MAX_SIZE)}})
         : es \in {state}})
\* except (AttributeError, TypeError): what the caching raised ends here.
Swallowed(state) ==
    The({IF es.err.type \in {"AttributeError", "TypeError"} THEN [es EXCEPT !.err = NoErr] ELSE es
         : es \in {state}})

\* What the catalog answers to a search: the section
\* data.searchV2.tracksV2.items of query_songs(term), each item as
\* [name, uri, artists] of item.data, and the section
\* data.searchV2.artists.items of query_artists(term), each as [name, uri].
trackX == spotify \o colon \o track \o colon \o <<"x">>
albumX == spotify \o colon \o album \o colon \o <<"x">>
playlistX == spotify \o colon \o playlist \o colon \o <<"x">>
ua == <<"u","a">>
jazz == <<"j","a","z","z">>
Ann == <<"A","n","n">>
TrackHits(term) ==
    IF term = xy THEN <<[name |-> xy, uri |-> u2, artists |-> <<[name |-> Ann, uri |-> ua]>>]>>
    ELSE IF term = abcd THEN <<[name |-> abcd, uri |-> u1, artists |-> << >>],
                               [name |-> << >>, uri |-> u2, artists |-> << >>]>>
    ELSE << >>
\* The answers of query_songs carry the tracksV2 section alone: the albumsV2
\* and playlists sections are absent, and _extract_search_section then
\* yields {}, no list.
AlbumHits(term) == << >>
PlaylistHits(term) == << >>
ArtistHits(term) == IF term = Ann THEN <<[name |-> Ann, uri |-> ua]>> ELSE << >>

\* The adds of a list of [name, uri] under one kind, up to the first that
\* raises.
RECURSIVE AddPairs(_, _, _)
AddPairs(es, kind, pairs) ==
    IF pairs = << >> THEN es
    ELSE AddPairs(IF Len(Head(pairs).name) > 0 /\ Len(Head(pairs).uri) > 0
                  THEN CacheAdd(es, kind, Head(pairs).name, Head(pairs).uri)
                  ELSE es,
                  kind, Tail(pairs))
\* _cache_search_results for a list of items: the item, then its artists;
\* an item whose caching raises is left and the loop goes on with the next.
RECURSIVE _cache_search_results(_, _, _)
_cache_search_results(es, items, kind) ==
    IF items = << >> THEN es
    ELSE _cache_search_results(
             Swallowed(AddPairs(AddPairs(es, kind, <<Head(items)>>), artist, Head(items).artists)),
             Tail(items), kind)
\* _cache_search_artists: the loop ends with the first add that raises.
_cache_search_artists(es, items) == Swallowed(AddPairs(es, artist, items))

\* _extract_search_section(raw, type_), as the list of items it yields; for
\* a type without a section path it yields raw itself, which is no list, so
\* that nothing is cached and nothing is collected.
SearchSection(term, type) ==
    CASE type = tracks -> TrackHits(term)
      [] type = albums -> AlbumHits(term)
      [] type = playlists -> PlaylistHits(term)
      [] OTHER -> << >>
\* kind_map.get(type_, type_.rstrip("s")) of _cache_search_results
SearchKind(type) ==
    CASE type = tracks -> track
      [] type = albums -> album
      [] type = playlists -> playlist
      [] OTHER -> RStrip(type, {"s"})
\* type_ of _query_search: "tracks" when the command has none or an empty one
SearchType(c) == IF "type" \notin DOMAIN c \/ c.type = << >> THEN tracks ELSE c.type

\* The loop of _query_search over the terms; es.res collects all_results.
RECURSIVE SearchTerms(_, _, _)
SearchTerms(state, terms, type) ==
    IF terms = << >> THEN state
    ELSE The({IF Failed(es) THEN es
              ELSE IF type = artists
              THEN The({IF Failed(e1) THEN e1
                        ELSE SearchTerms(
                                 _cache_search_artists(
                                     [e1 EXCEPT !.res = e1.res \o ArtistHits(Head(terms))],
                                     ArtistHits(Head(terms))),
                                 Tail(terms), type)
                        : e1 \in {Invoke(artistProp(es), "artist", "query_artists",
                                         <<Head(terms)>>, 0)}})
              ELSE The({IF Failed(e1) THEN e1
                        ELSE SearchTerms(
                                 _cache_search_results(
                                     [e1 EXCEPT !.res = e1.res \o SearchSection(Head(terms), type)],
                                     SearchSection(Head(terms), type), SearchKind(type)),
                                 Tail(terms), type)
                        : e1 \in {Invoke(song(es), "song", "query_songs", <<Head(terms)>>, 0)}})
              : es \in {state}})

_query_search(state, c) ==
    The({IF Failed(es) THEN es
         ELSE [es EXCEPT !.res = [status |-> "ok", query |-> "search", terms |-> c.terms,
                                  type |-> SearchType(c), data |-> es.res]]
         : es \in {SearchTerms([state EXCEPT !.res = << >>], c.terms, SearchType(c))}})

\* What recommended_songs answers: the mapping with recommendedTracks, each
\* track with its name and originalId.
RecommendedSongs ==
    [recommendedTracks |-> <<[name |-> xy, originalId |-> u2],
                             [name |-> abcd, originalId |-> << >>]>>]
_cache_recommend(es, data) ==
    Swallowed(AddPairs(es, track, [i \in 1..Len(data.recommendedTracks) |->
                                      [name |-> data.recommendedTracks[i].name,
                                       uri |-> data.recommendedTracks[i].originalId]]))

_query_recommendUnchecked(state, c) ==
    The({IF Failed(e1) THEN e1
         ELSE Return(_cache_recommend(e1, RecommendedSongs),
                     [status |-> "ok", query |-> "recommend", target |-> c.target,
                      n |-> Get0(c, "n", 20), data |-> RecommendedSongs])
         : e1 \in {CallPlaylistFor(state, c.target, "recommended_songs",
                                   <<Get0(c, "n", 20)>>)}})
_query_recommend(state, c) ==
    IF ~_is_uri(c.target) \/ _uri_kind(c.target) # playlist
    THEN Raise(state, DSLErrorWith("recommend requires a playlist URI", TRUE, <<c.target>>))
    ELSE The({IF Failed(e1) THEN e1
              ELSE Return(_cache_recommend(e1, RecommendedSongs),
                          [status |-> "ok", query |-> "recommend", target |-> c.target,
                           n |-> Get0(c, "n", 20), data |-> RecommendedSongs])
              : e1 \in {CallPlaylistFor(state, c.target, "recommended_songs",
                                        <<Get0(c, "n", 20)>>)}})

\* What get_track_info answers for a track id: data.trackUnion as
\* [name, artists], artists being firstArtist.items as [name, uri].
TrackInfo(track_id) ==
    IF track_id = ua THEN [name |-> Ann, artists |-> <<[name |-> abcd, uri |-> u2]>>]
    ELSE [name |-> << >>, artists |-> << >>]

\* The kinds _query_info looks a name up under, in order.
InfoKindsTrackFirst == <<track, artist, album, playlist>>
InfoKinds == <<artist, track, album, playlist>>

\* The for/else of _query_info: the first kind under which the cache
\* resolves the name, else the not-found error.
RECURSIVE ResolveAmong(_, _, _)
ResolveAmong(state, kinds, name) ==
    The({IF Failed(es) THEN es
         ELSE IF kinds = << >>
         THEN Raise(es, DSLErrorWith("not found. Use search first to find it.", TRUE, <<name>>))
         ELSE The({IF r.found
                   THEN [es EXCEPT !.c.cache = r.cache, !.order = Touch(es.order, r.key),
                                   !.uri = r.uri]
                   ELSE ResolveAmong(es, Tail(kinds), name)
                   : r \in {resolve(es.c.cache, Head(kinds), name)}})
         : es \in {state}})

\* The name in what the catalog answers for an identifier (data.trackUnion.name,
\* data.artistUnion.profile.name, data.albumUnion.name, data.playlistV2.name).
InfoData(kind, bare_id) ==
    [name |-> IF kind = artist THEN Ann
              ELSE IF kind = track THEN TrackInfo(bare_id).name
              ELSE << >>]

\* The collaborator _query_info asks, by the kind of the identifier.
InfoCall(es, kind, bare_id, c) ==
    CASE kind = track -> Invoke(song(es), "song", "get_track_info", <<bare_id>>, 0)
      [] kind = artist -> Invoke(artistProp(es), "artist", "get_artist", <<bare_id>>, 0)
      [] kind = album ->
           Invoke(Invoke(es, "PublicAlbum", "__init__", <<bare_id>>, 0),
                  "album", "get_album_info", <<Get0(c, "limit", 25), Get0(c, "offset", 0)>>, 0)
      [] kind = playlist ->
           Invoke(Invoke(es, "PublicPlaylist", "__init__", <<bare_id>>, 0),
                  "public_playlist", "get_playlist_info",
                  <<Get0(c, "limit", 25), Get0(c, "offset", 0)>>, 0)

_query_info(state, c) ==
    The({IF Failed(e1) THEN e1
         ELSE The({IF kind \notin {track, artist, album, playlist}
                   THEN Raise(e1, DSLErrorWith("Cannot get info for URI type", TRUE, <<kind>>))
                   ELSE The({IF Failed(e2) THEN e2
                             ELSE Return(Swallowed(AddPairs(e2, kind,
                                                  <<[name |-> InfoData(kind, _extract_id(e1.uri, kind)).name,
                                                     uri |-> e1.uri]>>)),
                                         [status |-> "ok", query |-> "info", target |-> e1.uri,
                                          data |-> InfoData(kind, _extract_id(e1.uri, kind))])
                             : e2 \in {InfoCall(e1, kind, _extract_id(e1.uri, kind), c)}})
                   : kind \in {_uri_kind(e1.uri)}})
         : e1 \in {IF _is_uri(c.target) THEN [state EXCEPT !.uri = c.target]
                   ELSE ResolveAmong(state, InfoKinds, c.target)}})

\* The body of the loop of _enrich_tracks for track i of the list es.res.
\* A track is [uri, title]; an empty title is a track without metadata.
\* What name_for_uri raises leaves the loop; whatever the fetch and the
\* adds after it raise is swallowed.
EnrichOne(state, i) ==
    The({LET t == es.res[i]
             cached_name == name_for_uri(es.c.reverse, t.uri)
             track_id == Split(t.uri, colon)[Len(Split(t.uri, colon))]
         IN  IF Failed(es) \/ Len(t.uri) = 0 \/ Len(t.title) > 0 THEN es
             ELSE IF name_for_uriError(es.c.reverse) # "none"
             THEN Raise(es, Exc(name_for_uriError(es.c.reverse)))
             ELSE IF cached_name # << >> /\ Len(cached_name[1]) > 0
             THEN [es EXCEPT !.res[i].title = cached_name[1]]
             ELSE The({IF Failed(e1) THEN [e1 EXCEPT !.err = NoErr]
                       ELSE The({IF Len(info.name) = 0 THEN e1
                                 ELSE The({[e2 EXCEPT !.err = NoErr]
                                           : e2 \in {AddPairs(
                                               CacheAdd([e1 EXCEPT !.res[i].title = info.name],
                                                        track, info.name, t.uri),
                                               artist, SubSeq(info.artists, 1, 1))}})
                                 : info \in {TrackInfo(track_id)}})
                       : e1 \in {Invoke(song(es), "song", "get_track_info", <<track_id>>, 0)}})
         : es \in {state}})

\* _enrich_tracks on the first k tracks of es.res, from track i on.
RECURSIVE EnrichFrom(_, _, _)
EnrichFrom(es, i, k) == IF i > k THEN es ELSE EnrichFrom(EnrichOne(es, i), i + 1, k)
_enrich_tracks(es, k) == EnrichFrom(es, 1, k)

\* len(tracks[:limit])
SliceLen(len, limit) ==
    IF limit >= 0 THEN (IF limit <= len THEN limit ELSE len) ELSE Max(len + limit, 0)

\* tracks is the list the player holds; the slice tracks[:limit] is a new
\* list of the same track objects, which _enrich_tracks updates in place.
_query_history(state, c) ==
    The({IF Failed(e1) THEN e1
         ELSE The({Return(e2, [status |-> "ok", query |-> "history", data |-> e2.res,
                               limit |-> Get0(c, "limit", 10)])
                   : e2 \in {_enrich_tracks([e1 EXCEPT !.res = e1.played],
                                            SliceLen(Len(e1.played), Get0(c, "limit", 10)))}})
         : e1 \in {CallPlayer(state, "last_songs_played", << >>)}})

\* What the player reports: the track of player.state and the list
\* next_songs_in_queue, each track as [uri, title], here without metadata.
trackUa == spotify \o colon \o track \o colon \o ua
StateTrack == [uri |-> trackUa, title |-> << >>]
NextSongsInQueue == <<[uri |-> trackUa, title |-> << >>]>>

\* state.track is enriched in place; data is the state.
_query_now_playing(state, c) ==
    The({IF Failed(e1) THEN e1
         ELSE The({Return(e2, [status |-> "ok", query |-> "now_playing",
                               data |-> [track |-> e2.res[1]]])
                   : e2 \in {_enrich_tracks([e1 EXCEPT !.res = <<StateTrack>>], 1)}})
         : e1 \in {CallPlayer(state, "state", << >>)}})

\* The slice tracks[:limit] is enriched in place; data is the whole list.
_query_get_queue(state, c) ==
    The({IF Failed(e1) THEN e1
         ELSE The({Return(e2, [status |-> "ok", query |-> "get_queue", data |-> e2.res,
                               limit |-> Get0(c, "limit", 10)])
                   : e2 \in {_enrich_tracks([e1 EXCEPT !.res = NextSongsInQueue],
                                            SliceLen(Len(NextSongsInQueue),
                                                     Get0(c, "limit", 10)))}})
         : e1 \in {CallPlayer(state, "next_songs_in_queue", << >>)}})

\* _LIBRARY_FILTERS.get(type_, [])
LibraryFilters(c) ==
    IF "type" \notin DOMAIN c THEN << >>
    ELSE CASE c.type = playlists -> <<"Playlists">>
           [] c.type = artists -> <<"Artists">>
           [] c.type = albums -> <<"Albums">>
           [] OTHER -> << >>
\* The words _cache_library looks for in __typename.
TypenamePlaylist == <<"P","l","a","y","l","i","s","t">>
TypenameAlbum == <<"A","l","b","u","m">>
TypenameArtist == <<"A","r","t","i","s","t">>
\* What get_library answers: data.me.libraryV3.items, each item.data as
\* [name, uri, typename].
LibraryItems ==
    <<[name |-> jazz, uri |-> albumX, typename |-> TypenameAlbum],
      [name |-> xy, uri |-> playlistX, typename |-> TypenamePlaylist]>>
\* The kind _cache_library files an item under, by its __typename; an item
\* of another type is not cached.
LibraryKind(typename) ==
    IF Find(typename, TypenamePlaylist) # 0 THEN playlist
    ELSE IF Find(typename, TypenameAlbum) # 0 THEN album
    ELSE IF Find(typename, TypenameArtist) # 0 THEN artist
    ELSE << >>
\* The loop ends with the first add that raises, which is swallowed.
RECURSIVE _cache_library(_, _)
_cache_library(es, items) ==
    IF items = << >> THEN Swallowed(es)
    ELSE _cache_library(IF LibraryKind(Head(items).typename) # << >>
                        THEN AddPairs(es, LibraryKind(Head(items).typename), <<Head(items)>>)
                        ELSE es,
                        Tail(items))

_query_library(state, c) ==
    The({IF Failed(e1) THEN e1
         ELSE Return(_cache_library(e1, LibraryItems),
                     [status |-> "ok", query |-> "library",
                      type |-> Get0(c, "type", "None"), data |-> LibraryItems])
         : e1 \in {Invoke(Invoke(state, "PrivatePlaylist", "__init__", << >>, 0),
                          "playlist", "get_library",
                          <<Get0(c, "limit", 50), Get0(c, "offset", 0),
                            LibraryFilters(c)>>, 0)}})

_dispatch_query(es, c) ==
    IF c.query \notin QueryHandlers THEN Raise(es, DSLErrorWith("Unknown query", TRUE, <<c.query>>))
    ELSE CASE c.query = "get_devices" -> _query_get_devices(es, c)
           [] c.query = "search" -> _query_search(es, c)
           [] c.query = "recommend" -> _query_recommend(es, c)
           [] c.query = "history" -> _query_history(es, c)
           [] c.query = "info" -> _query_info(es, c)
           [] c.query = "now_playing" -> _query_now_playing(es, c)
           [] c.query = "get_queue" -> _query_get_queue(es, c)
           [] c.query = "library" -> _query_library(es, c)

\* The faults of the write of save: mkdir, or the open of write_text,
\* raises OSError and nothing is written (at 0), or the write raises it after
\* the file was truncated (at -1), which leaves a text that is no JSON.
SaveFaults == {[at |-> 0, kind |-> "OSError"], [at |-> 0 - 1, kind |-> "OSError"]}
Torn == [exists |-> TRUE, text |-> << >>]
\* self._cache.save() of a successful attempt.  The call is logged; it is
\* no collaborator call and is not counted among them.  A save that has to
\* write raises under a fault of SaveFaults, before _dirty is cleared.
SaveCacheOnFailureToo(state) ==
    The({The({[es EXCEPT !.c.dirty = s.dirty, !.disk = s.disk,
                         !.calls = Append(es.calls, [attempt |-> es.attempt, obj |-> "cache",
                                                     m |-> "save", arg |-> << >>,
                                                     handle |-> 0, ok |-> TRUE])]
              : s \in {save(es.c, es.path, es.disk)}})
         : es \in {state}})
SaveCache(state) ==
    The({IF Failed(es) THEN es
         ELSE The({IF s.wrote /\ es.fault \in SaveFaults
                   THEN [es EXCEPT !.disk = IF es.fault.at = 0 THEN es.disk ELSE Torn,
                                   !.calls = Append(es.calls, [attempt |-> es.attempt, obj |-> "cache",
                                                               m |-> "save", arg |-> << >>,
                                                               handle |-> 0, ok |-> FALSE]),
                                   !.err = Exc(es.fault.kind)]
                   ELSE [es EXCEPT !.c.dirty = s.dirty, !.disk = s.disk,
                                   !.calls = Append(es.calls, [attempt |-> es.attempt, obj |-> "cache",
                                                               m |-> "save", arg |-> << >>,
                                                               handle |-> 0, ok |-> TRUE])]
                   : s \in {save(es.c, es.path, es.disk)}})
         : es \in {state}})

DispatchModifiersOnQueries(es, c) ==
    IF "action" \in DOMAIN c THEN _dispatch_action(es, c)
    ELSE IF "query" \in DOMAIN c THEN _apply_state_modifiers(_dispatch_query(es, c), c)
    ELSE Raise(es, DSLError("Invalid command: no action or query key", TRUE))
Dispatch(es, c) ==
    IF "action" \in DOMAIN c THEN _dispatch_action(es, c)
    ELSE IF "query" \in DOMAIN c THEN _dispatch_query(es, c)
    ELSE Raise(es, DSLError("Invalid command: no action or query key", TRUE))

RewrapNothing(state) == state
\* except DSLError: raise / except Exception as e: raise DSLError(...) from e
Rewrap(state) ==
    The({IF Failed(es) /\ es.err.type # "DSLError" THEN [es EXCEPT !.err = Wrapped(es.err)]
         ELSE es
         : es \in {state}})

_execute_once(es, c) == Rewrap(SaveCache(Dispatch(es, c)))

\* Lines 158-160 of execute: the first error is retried when it is a
\* WebSocketError or a DSLError whose __cause__ is one.
ShouldRetryAlways(first) == TRUE
ShouldRetryDirectOnly(first) == first.type = "WebSocketError"
ShouldRetry(first) ==
    LET inner == IF first.type = "DSLError" THEN first.cause ELSE first.type
    IN  ~(inner # "WebSocketError" /\ first.type # "WebSocketError")

\* _reset_player: the handle cached afterwards; closeRaises tells whether
\* ws.close() raises.
_reset_playerUnlessCloseRaises(handle, closeRaises) == IF closeRaises THEN handle ELSE 0
_reset_player(handle, closeRaises) == IF handle # 0 THEN 0 ELSE handle

(***************************************************************************)
(* SpecCache: a NameCache without persistence location, under add,          *)
(* add_many and resolve.  SpecPersist: a NameCache with a persistence       *)
(* location, under add, resolve, save and reconstruction from the record.   *)
(***************************************************************************)
InitCache ==
    /\ _cache = << >>
    /\ _reverse = EmptyDict
    /\ _dirty = FALSE
    /\ _path = FALSE
    /\ _max_size \in 1..MaxSize
    /\ disk = NoFile
    /\ last = Op("init", << >>, << >>, << >>, FALSE)
    /\ evicted = << >>
    /\ recency = << >>
    /\ NoExecutor

NextCache ==
    \/ Add(AddInputs)
    \/ AddMany(Batches)
    \/ Resolve(ResolveInputs)

SpecCache == InitCache /\ [][NextCache]_vars

InitPersist ==
    /\ _cache = << >>
    /\ _reverse = EmptyDict
    /\ _dirty = FALSE
    /\ _path = TRUE
    /\ _max_size \in 1..MaxSize
    /\ disk = NoFile
    /\ last = Op("init", << >>, << >>, << >>, FALSE)
    /\ evicted = << >>
    /\ recency = << >>
    /\ NoExecutor

NextPersist ==
    \/ Add(PersistAddInputs)
    \/ AddMany(PersistBatches)
    \/ Resolve(PersistResolveInputs)
    \/ Save
    \/ Load

SpecPersist == InitPersist /\ [][NextPersist]_vars

(***************************************************************************)
(* Claims about the NameCache.                                              *)
(***************************************************************************)
\* The forward key add and resolve use for the name of the last operation.
LastKey == <<last.kind, Normalize(last.name)>>
LastAdds == last.op = "add" /\ Len(last.name) > 0 /\ Len(last.uri) > 0
Pos(order, key) == CHOOSE i \in 1..Len(order) : order[i] = key

\* C4: between operations (add, add_many, resolve, load of whatever record
\* is at the location) the forward map never holds more entries than the
\* ceiling.
C4_SizeWithinCeiling == Len(_cache) <= _max_size

\* C5: the entries an add evicts are the least recently touched ones: in
\* the touch order (adds, exact and fuzzy resolve hits), with the added key
\* touched last, every evicted key comes before every key that stays, and
\* the evicted keys leave oldest first.
C5_StrictLRU ==
    [][LastAdds' =>
        \A order \in {Touch(recency, LastKey')} :
            /\ \A i \in 1..Len(evicted') : \A k \in KeySet(_cache') :
                  /\ \E j \in 1..Len(order) : order[j] = evicted'[i]
                  /\ \E j \in 1..Len(order) : order[j] = k
                  /\ Pos(order, evicted'[i]) < Pos(order, k)
            /\ \A i \in 1..Len(evicted') : \A j \in 1..Len(evicted') :
                  i < j => Pos(order, evicted'[i]) < Pos(order, evicted'[j])]_vars

\* An add has evicted one entry of a forward map that keeps two others.
C5_Witness ==
    /\ LastAdds
    /\ Len(evicted) = 1
    /\ Len(_cache) >= 2

\* C6: every identifier of the forward map has an entry in the reverse index.
C6_ForwardHasReverse ==
    \A i \in 1..Len(_cache) : _cache[i].uri \in DOMAIN _reverse

\* v and n differ only in letter case and in leading or trailing whitespace.
SameButCaseAndSpace(v, n) == Lower(Strip(v)) = Lower(Strip(n))

\* C7: resolve(kind, v) returns the identifier of the forward entry of that
\* kind whose name v differs from only in letter case or outer whitespace.
C7_ResolveVariant ==
    last.op = "resolve" =>
        \A i \in 1..Len(_cache) :
            (_cache[i].key[1] = last.kind /\ SameButCaseAndSpace(last.name, _cache[i].key[2]))
            => (last.found /\ last.uri = _cache[i].uri)

\* resolve of " ABc " has returned the identifier stored under "abc".
C7_Witness ==
    /\ last.op = "resolve"
    /\ last.name = ABc
    /\ last.found
    /\ \E i \in 1..Len(_cache) : _cache[i].key = <<track, abc>> /\ _cache[i].uri = last.uri

\* C8: an add whose key is already in the forward map leaves the size of the
\* map unchanged, evicts nothing and makes the key the most recent entry.
C8_ReAddRefreshes ==
    [][(LastAdds' /\ LastKey' \in KeySet(_cache)) =>
        /\ Len(_cache') = Len(_cache)
        /\ KeySet(_cache') = KeySet(_cache)
        /\ evicted' = << >>
        /\ _cache'[Len(_cache')].key = LastKey'
        /\ _cache'[Len(_cache')].uri = last'.uri]_vars

\* The last add wrote a second identifier under a key that was there: two
\* reverse entries, one forward entry, nothing evicted.
C8_Witness ==
    /\ LastAdds
    /\ evicted = << >>
    /\ Len(_cache) = 1
    /\ DOMAIN _reverse = {u1, u2}

\* C9: resolve returns only an identifier stored under a key of the kind
\* asked for, whose name is the (normalized) name or reaches the cutoff;
\* and returns none when no entry of that kind reaches the cutoff.
C9_ResolveSameKind ==
    last.op = "resolve" =>
        LET close == {i \in 1..Len(_cache) :
                         /\ _cache[i].key[1] = last.kind
                         /\ RatioAtLeastCutoff(Ratio(_cache[i].key[2], Normalize(last.name)))}
        IN  /\ last.found => \E i \in close : _cache[i].uri = last.uri
            /\ close = {} => ~last.found

\* resolve(track, "abcd") returned none although the artist "abcd" and a
\* track below the cutoff are cached.
C9_Witness ==
    /\ last.op = "resolve"
    /\ last.kind = track
    /\ last.name = abcd
    /\ ~last.found
    /\ \E i \in 1..Len(_cache) : _cache[i].key = <<artist, abcd>>
    /\ \E i \in 1..Len(_cache) : _cache[i].key = <<track, xy>>

\* The record a cache content is persisted as under the legacy convention:
\* the forward keys joined with "\x00".
LegacyRecord(c) ==
    [exists |-> TRUE, cache |-> JoinAll(c.cache, NUL), reverse |-> c.reverse]

\* A cache constructed with the same ceiling from the record holds the
\* forward map and the reverse index of memory.
RoundTrips(file) ==
    LET c == _load(_path, file, _max_size)
    IN  /\ AsMap(c.cache) = AsMap(_cache)
        /\ c.reverse = _reverse

\* After save, a cache constructed from the record written (keys joined
\* with _SEP) holds the forward map and the reverse index saved.
SaveLoadRoundTrip == last.op = "save" => RoundTrips(disk)

\* C10: after save, a cache constructed from the same location holds the
\* forward map and the reverse index saved, also when the keys of the
\* record are joined with the legacy separator.
C10_RoundTrip ==
    last.op = "save" => (RoundTrips(disk) /\ RoundTrips(LegacyRecord(Now)))

(***************************************************************************)
(* SpecExec: a SpotifyExecutor and the commands executed on it.             *)
(***************************************************************************)
\* The state an execute starts from.
ExecState ==
    [player |-> _player, players |-> players, song |-> _song, artist |-> _artist,
     max_volume |-> _max_volume, c |-> Now, path |-> _path, disk |-> disk,
     order |-> recency, devices |-> DevicesAt(dev), active |-> dev.active,
     played |-> dev.played,
     calls |-> << >>, n |-> 0, attempt |-> 1, fault |-> NoFault,
     err |-> NoErr, res |-> NoResult, uri |-> << >>,
     outcomes |-> << >>, resetTo |-> NotReset, closeRaised |-> FALSE]

\* execute after its first attempt ended as a1 (lines 156-167): a1 when it
\* succeeded or is not retried, else the reset of the player and the second
\* attempt.  closeRaises tells whether ws.close() raises, f2 is the fault
\* of the second attempt.
Second(a1, c, closeRaises, f2) ==
    IF ~Failed(a1) \/ ~ShouldRetry(a1.err)
    THEN [a1 EXCEPT !.outcomes = <<a1.err>>]
    ELSE The({[a2 EXCEPT !.outcomes = <<a1.err, a2.err>>]
              : a2 \in {Rewrap(_execute_once(
                  [a1 EXCEPT
                      !.player = _reset_player(a1.player, closeRaises),
                      !.resetTo = _reset_player(a1.player, closeRaises),
                      !.closeRaised = a1.player # 0 /\ closeRaises,
                      !.calls = IF a1.player = 0 THEN a1.calls
                                ELSE Append(a1.calls,
                                            [attempt |-> 1, obj |-> "player.ws", m |-> "close",
                                             arg |-> << >>, handle |-> a1.player,
                                             ok |-> ~closeRaises]),
                      !.n = 0, !.attempt = 2, !.fault = f2,
                      !.err = NoErr, !.res = NoResult, !.uri = << >>],
                  c))}})

\* execute: f1 is the fault of the first attempt.
execute(state, c, f1, closeRaises, f2) ==
    The({Second(a1, c, closeRaises, f2) : a1 \in {_execute_once([state EXCEPT !.fault = f1], c)}})

\* The inputs the second half of execute reads, when it runs.
Closes(a1) == IF Failed(a1) /\ ShouldRetry(a1.err) /\ a1.player # 0 THEN BOOLEAN ELSE {FALSE}
SecondFaults(a1, faults) == IF Failed(a1) /\ ShouldRetry(a1.err) THEN faults ELSE {NoFault}

\* max(0.0, min(1.0, max_volume)), in hundredths
ClampVolumeNone(max_volume) == max_volume
ClampVolume(max_volume) == Max(0, Min(Percent, max_volume))

Faults ==
    {NoFault} \cup [at : 1..MaxFaultAt, kind : {"WebSocketError", "RuntimeError"}]

Commands ==
    {[action |-> "pause"],
     [action |-> "skip", n |-> 2],
     [action |-> "like", target |-> trackX],
     [action |-> "queue", target |-> ABc],
     [action |-> "play", target |-> albumX],
     [action |-> "playlist_add", track |-> trackX, playlist |-> playlistX],
     [action |-> "set", volume |-> 70],
     [action |-> "set", volume |-> 150],
     [action |-> "resume", volume |-> 30, mode |-> "shuffle"],
     [action |-> "bogus"],
     [query |-> "get_devices"],
     [query |-> "bogus"],
     [volume |-> 5]}

\* The record the cache of a new executor may find at its location.
abcRecord == save(add(EmptyCache, track, abc, u1, _MAX_SIZE), TRUE, NoFile).disk
ExecFiles == {NoFile, abcRecord}
MaxVolumes == {50}

InitExecOn(files) ==
    /\ _path = TRUE
    /\ disk \in files
    /\ _max_size = _MAX_SIZE
    /\ _cache = _load(_path, disk, _MAX_SIZE).cache
    /\ _reverse = _load(_path, disk, _MAX_SIZE).reverse
    /\ _dirty = FALSE
    /\ evicted = << >>
    /\ recency = Keys(_cache)
    /\ last = Op("init", << >>, << >>, << >>, FALSE)
    /\ \E eager \in BOOLEAN :
        /\ _player = IF eager THEN 1 ELSE 0
        /\ players = IF eager THEN 1 ELSE 0
    /\ _song = FALSE
    /\ _artist = FALSE
    /\ _max_volume \in {ClampVolume(v) : v \in MaxVolumes}
    /\ dev = [volume |-> 32768, active |-> ActiveId, played |-> << >>]
    /\ ExecIdle
InitExec == InitExecOn(ExecFiles)

Execute(commands, faults) ==
    /\ players + 2 <= MaxPlayers
    /\ \E c \in commands, f1 \in faults :
        \E a1 \in {_execute_once([ExecState EXCEPT !.fault = f1], c)} :
        \E closeRaises \in Closes(a1), f2 \in SecondFaults(a1, faults) :
        \E es \in {Second(a1, c, closeRaises, f2)} :
            /\ _player' = es.player
            /\ players' = es.players
            /\ _song' = es.song
            /\ _artist' = es.artist
            /\ _cache' = es.c.cache
            /\ _reverse' = es.c.reverse
            /\ _dirty' = es.c.dirty
            /\ disk' = es.disk
            /\ recency' = es.order
            /\ evicted' = << >>
            /\ last' = Op("execute", << >>, << >>, << >>, FALSE)
            /\ cmd' = c
            /\ calls' = es.calls
            /\ outcomes' = es.outcomes
            /\ resetTo' = es.resetTo
            /\ closeRaised' = es.closeRaised
            /\ result' = IF Failed(es) THEN NoResult ELSE es.res
            /\ error' = es.err
            /\ UNCHANGED <<_path, _max_size, _max_volume, dev, parsed>>

NextExec == Execute(Commands, Faults)

SpecExec == InitExec /\ [][NextExec]_vars

(***************************************************************************)
(* Claims about execute.                                                    *)
(***************************************************************************)
Executed == cmd # NoCmd
Returned == Executed /\ error = NoErr
\* The error is a stale-connection error: a WebSocketError, or a DSLError
\* whose cause is one.
IsStale(e) == e.type = "WebSocketError" \/ (e.type = "DSLError" /\ e.cause = "WebSocketError")
PlayerCalls(attempt) ==
    {i \in 1..Len(calls) : calls[i].attempt = attempt /\ calls[i].obj = "player"}
Constructed(attempt) ==
    {calls[i].handle : i \in {j \in 1..Len(calls) :
        calls[j].attempt = attempt /\ calls[j].obj = "Player" /\ calls[j].ok}}

\* C1: when the first attempt of an execute fails with a stale-connection
\* error, the command is attempted exactly once more, and when that second
\* attempt succeeds the execute returns its success result.
C1_RetryOnceOnStale ==
    (Executed /\ IsStale(outcomes[1])) =>
        /\ Len(outcomes) = 2
        /\ (outcomes[2] = NoErr => Returned /\ result # NoResult /\ result.status = "ok")

\* A stale first attempt was followed by a successful second one.
C1_Witness ==
    /\ Executed
    /\ Len(outcomes) = 2
    /\ IsStale(outcomes[1])
    /\ outcomes[2] = NoErr
    /\ result = [status |-> "ok", action |-> "pause"]

\* C2: an execute makes at most two attempts; a first failure that is not a
\* stale-connection error is raised without a second attempt; a failure of
\* the second attempt is raised as a DSLError.
C2_AtMostTwoAttempts ==
    Executed =>
        /\ Len(outcomes) \in {1, 2}
        /\ (outcomes[1] # NoErr /\ ~IsStale(outcomes[1])) =>
               (Len(outcomes) = 1 /\ error = outcomes[1]
                /\ \A i \in 1..Len(calls) : calls[i].attempt = 1)
        /\ (Len(outcomes) = 2 /\ outcomes[2] # NoErr) =>
               (error = outcomes[2] /\ error.type = "DSLError")

\* Both attempts failed, the second with an error that is not a DSLError
\* when raised.
C2_Witness ==
    /\ Executed
    /\ Len(outcomes) = 2
    /\ outcomes[2].cause = "RuntimeError"
    /\ error.type = "DSLError"

\* C3: before the second attempt the cached player is discarded, also when
\* closing its connection raises, and every player call of the second
\* attempt goes to a Player constructed in that attempt.
C3_FreshPlayerOnRetry ==
    (Executed /\ Len(outcomes) = 2) =>
        /\ resetTo = 0
        /\ \A i \in PlayerCalls(2) :
            /\ calls[i].handle \in Constructed(2)
            /\ \A j \in PlayerCalls(1) : calls[j].handle # calls[i].handle

\* The close of the stale player raised, and the second attempt called a
\* player.
C3_Witness ==
    /\ Executed
    /\ Len(outcomes) = 2
    /\ closeRaised
    /\ PlayerCalls(1) # {}
    /\ \E i \in PlayerCalls(2) : calls[i].ok

(***************************************************************************)
(* SpecLoad: a NameCache constructed from whatever record is found at its   *)
(* location, and the adds to it.                                            *)
(***************************************************************************)
abcXyRecord ==
    save(add(add(EmptyCache, track, abc, u1, _MAX_SIZE), track, xy, u2, _MAX_SIZE), TRUE, NoFile).disk
LoadFiles ==
    {NoFile, abcRecord, abcXyRecord,
     [exists |-> TRUE, cache |-> JoinAll(<<[key |-> <<track, abc>>, uri |-> u1]>>, NUL),
      reverse |-> abcRecord.reverse],
     [exists |-> TRUE, cache |-> <<[key |-> abc, uri |-> u1]>>, reverse |-> EmptyDict],
     [exists |-> TRUE],
     [exists |-> TRUE, reverse |-> abcRecord.reverse],
     [exists |-> TRUE, text |-> xy],
     [exists |-> TRUE, top |-> "array"],
     [exists |-> TRUE, top |-> "null"],
     [exists |-> TRUE, cache_is |-> "array", reverse |-> EmptyDict],
     [exists |-> TRUE, cache_is |-> "string"],
     [exists |-> TRUE, cache |-> abcRecord.cache, reverse_is |-> "array"],
     [exists |-> TRUE, cache |-> abcXyRecord.cache, reverse_is |-> "array"],
     [exists |-> TRUE, cache |-> abcXyRecord.cache, reverse_is |-> "null"],
     [exists |-> TRUE, cache |-> << >>, reverse_is |-> "string"]}

\* Something else replaces the record at the location.
Overwrite(files) ==
    \E f \in files :
        /\ disk' = f
        /\ last' = Op("overwrite", << >>, << >>, << >>, FALSE)
        /\ UNCHANGED <<_cache, _reverse, _dirty, _path, _max_size, evicted, recency, execVars>>

\* cache = NameCache(path, m) is called; error is the exception it raises,
\* and then no new cache is there: the one before stays.
Construct ==
    \E m \in 1..MaxSize :
        \E c \in {_load(_path, disk, m)}, e \in {_loadError(_path, disk, m)} :
            /\ IF e = "none"
               THEN Install(c) /\ _max_size' = m /\ recency' = Keys(c.cache)
               ELSE UNCHANGED <<_cache, _reverse, _dirty, evicted, _max_size, recency>>
            /\ last' = Op("load", << >>, << >>, << >>, FALSE)
            /\ error' = IF e = "none" THEN NoErr ELSE Exc(e)
            /\ UNCHANGED <<_path, disk, execVarsButError>>

InitLoad == InitPersist

NextLoad ==
    \/ Overwrite(LoadFiles)
    \/ Construct
    \/ Add(PersistAddInputs)

SpecLoad == InitLoad /\ [][NextLoad]_vars

\* The record is unparseable or structurally wrong.
Malformed(file) ==
    file.exists /\ {"text", "top", "cache_is", "reverse_is"} \cap DOMAIN file # {}

\* C11: constructing a NameCache from a record that is unparseable or
\* structurally wrong raises nothing and leaves the cache empty.
C11_MalformedLoadsEmpty ==
    (last.op = "load" /\ Malformed(disk)) =>
        (error = NoErr /\ _cache = << >> /\ _reverse = EmptyDict)

(***************************************************************************)
(* SpecSave: a NameCache with or without a persistence location.            *)
(***************************************************************************)
InitSave ==
    /\ _cache = << >>
    /\ _reverse = EmptyDict
    /\ _dirty = FALSE
    /\ _path \in BOOLEAN
    /\ _max_size \in 1..MaxSize
    /\ disk = NoFile
    /\ last = Op("init", << >>, << >>, << >>, FALSE)
    /\ evicted = << >>
    /\ recency = << >>
    /\ NoExecutor

NextSave ==
    \/ Add(PersistAddInputs \cup {<<track, << >>, u1>>})
    \/ AddMany(PersistBatches \cup {<< >>})
    \/ Resolve(PersistResolveInputs)
    \/ Save
    \/ Load

SpecSave == InitSave /\ [][NextSave]_vars

\* The operation just called was an add or add_many that stored an entry.
EffectiveAdd ==
    \/ last.op = "add" /\ Len(last.name) > 0 /\ Len(last.uri) > 0
    \/ /\ last.op = "add_many"
       /\ \E i \in 1..Len(last.items) : Len(last.items[i][1]) > 0 /\ Len(last.items[i][2]) > 0

\* C12: the dirty flag tells that an entry was added since the record was
\* last written or the cache constructed: an add that stores an entry sets
\* it, construction and a save that writes clear it, nothing else changes
\* it.  save writes exactly when there is a location and the flag is set;
\* a save that does not write leaves the record as it is.
C12_SaveOnlyIfDirty ==
    [][/\ EffectiveAdd' => _dirty'
       /\ last'.op = "load" => ~_dirty'
       /\ last'.op = "save" =>
              /\ last'.found <=> (_path /\ _dirty)
              /\ last'.found => ~_dirty'
              /\ ~last'.found => (disk' = disk /\ _dirty' = _dirty)
       /\ (~EffectiveAdd' /\ last'.op \notin {"load", "save"}) => _dirty' = _dirty
       /\ last'.op # "save" => disk' = disk]_vars

\* A save wrote the entries added before it, and the next save finds
\* nothing to write.
C12_Witness ==
    /\ last.op = "save"
    /\ ~last.found
    /\ _path
    /\ disk.exists
    /\ _cache # << >>

(***************************************************************************)
(* SpecSearch: a SpotifyExecutor with a persistence location under search   *)
(* queries, which add to the cache, and commands that resolve from it.      *)
(***************************************************************************)
SearchCommands ==
    {[query |-> "search", terms |-> <<xy>>],
     [query |-> "search", terms |-> <<abcd, xy>>],
     [query |-> "search", terms |-> <<Ann>>, type |-> artists],
     [query |-> "search", terms |-> <<xy>>, type |-> albums],
     [action |-> "queue", target |-> xy, volume |-> 30]}

\* A new executor that found no record at its location, or one whose
\* "reverse" is an array.
abcArrayRecord == [exists |-> TRUE, cache |-> abcRecord.cache, reverse_is |-> "array"]
SearchFiles == {NoFile, abcArrayRecord}
InitSearch == InitExecOn(SearchFiles)

\* A collaborator call of an attempt raises, or the write of its save.
SearchFaults ==
    {NoFault, [at |-> 1, kind |-> "WebSocketError"], [at |-> 2, kind |-> "RuntimeError"]}
    \cup SaveFaults

NextSearch == Execute(SearchCommands, SearchFaults)

SpecSearch == InitSearch /\ [][NextSearch]_vars

SaveCalls(attempt) ==
    {i \in 1..Len(calls) :
        calls[i].attempt = attempt /\ calls[i].obj = "cache" /\ calls[i].m = "save"}
\* Every entry of the forward map is in the record at the location.
AddsAreDurable ==
    \A i \in 1..Len(_cache) :
        /\ disk.exists
        /\ "cache" \in DOMAIN disk
        /\ \E j \in 1..Len(disk.cache) :
            /\ disk.cache[j].key = JoinKey(_cache[i].key, _SEP)
            /\ disk.cache[j].uri = _cache[i].uri

\* C13: an attempt that succeeds calls the cache save exactly once, after
\* every call of its dispatch; an attempt that fails never calls save; and
\* after a successful execute with a persistence location every entry added
\* so far is in the durable record.
C13_SaveOncePerSuccess ==
    Executed =>
        /\ \A a \in 1..Len(outcomes) :
            IF outcomes[a] = NoErr
            THEN /\ Cardinality(SaveCalls(a)) = 1
                 /\ \A i \in SaveCalls(a) : \A j \in 1..Len(calls) :
                        calls[j].attempt = a => j <= i
            ELSE SaveCalls(a) = {}
        /\ (Returned /\ _path) => (AddsAreDurable /\ ~_dirty)

(***************************************************************************)
(* SpecEager: executors constructed with eager = True, whose Player may     *)
(* fail to construct, and the commands executed on the one constructed      *)
(* last.                                                                    *)
(***************************************************************************)
\* A field the constructor did not come to assign.
Unset == "unset"
\* SpotifyExecutor.__init__: the fields of the new object, and in err the
\* exception that leaves the constructor.  built is the number of Player
\* constructions so far, f the fault of the warm-up.
__init__(path, file, max_volume, built, eager, f) ==
    The({IF e # "none"
         THEN [player |-> 0, players |-> built, song |-> FALSE, artist |-> FALSE,
               max_volume |-> Unset, c |-> Unset, path |-> path, disk |-> file,
               order |-> Unset,
               devices |-> DevicesAt(dev), active |-> dev.active,
               played |-> dev.played,
               calls |-> << >>, n |-> 0, attempt |-> 0, fault |-> f,
               err |-> Exc(e), res |-> NoResult, uri |-> << >>,
               outcomes |-> << >>, resetTo |-> NotReset, closeRaised |-> FALSE]
         ELSE The({IF eager THEN player(s0) ELSE s0
                   : s0 \in {[player |-> 0, players |-> built, song |-> FALSE, artist |-> FALSE,
                              max_volume |-> ClampVolume(max_volume),
                              c |-> _load(path, file, _MAX_SIZE), path |-> path, disk |-> file,
                              order |-> Keys(_load(path, file, _MAX_SIZE).cache),
                              devices |-> DevicesAt(dev), active |-> dev.active,
                              played |-> dev.played,
                              calls |-> << >>, n |-> 0, attempt |-> 0, fault |-> f,
                              err |-> NoErr, res |-> NoResult, uri |-> << >>,
                              outcomes |-> << >>, resetTo |-> NotReset,
                              closeRaised |-> FALSE]}})
         : e \in {_loadError(path, file, _MAX_SIZE)}})

\* executor = SpotifyExecutor(login, eager=True, cache_path=..., ...);
\* last.found tells whether the caller got an executor.  When NameCache
\* raised, the new object has its player, song and artist fields, empty,
\* and neither a cache nor a volume cap.
NewEager(faults) ==
    /\ players + 1 <= MaxPlayers
    /\ \E f \in faults, mv \in MaxVolumes :
        \E es \in {__init__(_path, disk, mv, players, TRUE, f)} :
            /\ players' = es.players
            /\ _player' = es.player
            /\ _song' = es.song
            /\ _artist' = es.artist
            /\ IF _loadError(_path, disk, _MAX_SIZE) = "none"
               THEN /\ _max_volume' = es.max_volume
                    /\ Install(es.c)
                    /\ recency' = es.order
               ELSE UNCHANGED <<_max_volume, _cache, _reverse, _dirty, evicted, recency>>
            /\ last' = Op("__init__", << >>, << >>, << >>, ~Failed(es))
            /\ cmd' = NoCmd
            /\ calls' = es.calls
            /\ outcomes' = << >>
            /\ resetTo' = NotReset
            /\ closeRaised' = FALSE
            /\ result' = NoResult
            /\ error' = es.err
            /\ UNCHANGED <<_path, _max_size, disk, dev, parsed>>

\* There is an executor to call execute on.
HasExecutor == last.op = "execute" \/ (last.op = "__init__" /\ last.found)

EagerCommands ==
    {[action |-> "pause"],
     [action |-> "like", target |-> trackX],
     [query |-> "get_devices"]}

\* The record a new executor may find at its location: none, or a JSON
\* array.
EagerFiles == {NoFile, [exists |-> TRUE, top |-> "array"]}

InitEager ==
    /\ _path = TRUE
    /\ disk \in EagerFiles
    /\ _max_size = _MAX_SIZE
    /\ _cache = << >>
    /\ _reverse = EmptyDict
    /\ _dirty = FALSE
    /\ evicted = << >>
    /\ recency = << >>
    /\ last = Op("none", << >>, << >>, << >>, FALSE)
    /\ NoExecutor

NextEager ==
    \/ NewEager(Faults)
    \/ HasExecutor /\ Execute(EagerCommands, Faults)

SpecEager == InitEager /\ [][NextEager]_vars

\* C14: constructing an executor with eager set never fails because of the
\* player: over a record the cache loads, when the warm-up raises,
\* construction still completes, without a cached player.
C14_EagerNeverFails ==
    (last.op = "__init__" /\ _loadError(_path, disk, _MAX_SIZE) = "none") =>
        (error = NoErr /\ last.found)

(***************************************************************************)
(* SpecLazy: a SpotifyExecutor constructed with eager = False and the       *)
(* commands executed on it.                                                 *)
(***************************************************************************)
LazyCommands ==
    {[query |-> "search", terms |-> <<xy>>],
     [action |-> "like", target |-> trackX],
     [action |-> "pause"],
     [action |-> "skip", n |-> 2],
     [action |-> "resume", volume |-> 30, mode |-> "shuffle"],
     [query |-> "get_devices"]}

InitLazy ==
    /\ dev = [volume |-> 32768, active |-> ActiveId, played |-> << >>]
    /\ _path = TRUE
    /\ disk = NoFile
    /\ _max_size = _MAX_SIZE
    /\ \E mv \in MaxVolumes, f \in Faults :
        \E es \in {__init__(_path, disk, mv, 0, FALSE, f)} :
            /\ _player = es.player
            /\ players = es.players
            /\ _song = es.song
            /\ _artist = es.artist
            /\ _max_volume = es.max_volume
            /\ _cache = es.c.cache
            /\ _reverse = es.c.reverse
            /\ _dirty = es.c.dirty
            /\ recency = es.order
    /\ evicted = << >>
    /\ last = Op("__init__", << >>, << >>, << >>, TRUE)
    /\ ExecIdle

NextLazy == Execute(LazyCommands, Faults)

SpecLazy == InitLazy /\ [][NextLazy]_vars

\* The Player constructions of an attempt that returned a player.
Built(attempt) == Cardinality(Constructed(attempt))
\* 1 when no handle is cached.
NoneCached(p) == IF p = 0 THEN 1 ELSE 0
\* The stale-connection resets of the last execute.
Resets == IF Executed /\ Len(outcomes) = 2 THEN 1 ELSE 0
\* The commands whose handlers never read self.player.
TouchesNoPlayer(c) ==
    \/ "query" \in DOMAIN c /\ c.query = "search"
    \/ "action" \in DOMAIN c /\ c.action = "like" /\ DOMAIN c \cap Modifiers = {}

\* C15: with eager = False the construction of the executor constructs no
\* player; a command constructs one only when no handle is cached (at most
\* one per attempt) and none when it never reads the player; and each
\* execute constructs at most as many players as it uses up of the budget
\* "one plus the stale-connection resets": the number constructed is at
\* most NoneCached before, minus NoneCached after, plus its resets, which
\* sums over any command sequence to at most one plus the number of resets.
C15_LazyConstruction ==
    [][/\ ~Executed => (players = 0 /\ _player = 0)
       /\ Executed' =>
            /\ Built(1)' <= NoneCached(_player)
            /\ Built(2)' <= 1
            /\ Built(1)' + Built(2)' <= NoneCached(_player) - NoneCached(_player') + Resets'
            /\ TouchesNoPlayer(cmd') =>
                   (players' = players /\ \A i \in 1..Len(calls') : calls'[i].obj # "Player")]_vars

\* An execute found a cached player stale, reset it and constructed a
\* second one.
C15_Witness ==
    /\ Executed
    /\ Len(outcomes) = 2
    /\ \E i \in PlayerCalls(1) : calls[i].handle = 1
    /\ Built(2) = 1
    /\ _player = 2

(***************************************************************************)
(* SpecMod: a SpotifyExecutor under action commands that carry state        *)
(* modifiers.                                                               *)
(***************************************************************************)
Gone == "gone"
ModDevs ==
    {[volume |-> 32768, active |-> ActiveId, played |-> << >>],
     [volume |-> 32768, active |-> Gone, played |-> << >>]}
ModCommands ==
    {[action |-> "pause", volume |-> 70, volume_rel |-> 10, mode |-> "shuffle", device |-> Den],
     [action |-> "like", target |-> trackX, volume |-> 30, mode |-> "repeat"],
     [action |-> "skip", n |-> 2, mode |-> "off", device |-> Den],
     [action |-> "queue", target |-> xy, volume |-> 150],
     [action |-> "set", volume |-> 70],
     [action |-> "set", volume |-> 150],
     [action |-> "set", volume |-> 0 - 5, mode |-> "shuffle"],
     [action |-> "pause", volume |-> 101]}

InitMod ==
    /\ dev \in ModDevs
    /\ _path = FALSE
    /\ disk = NoFile
    /\ _max_size = _MAX_SIZE
    /\ \E mv \in MaxVolumes :
        \E es \in {__init__(_path, disk, mv, 0, FALSE, NoFault)} :
            /\ _player = es.player
            /\ players = es.players
            /\ _song = es.song
            /\ _artist = es.artist
            /\ _max_volume = es.max_volume
            /\ _cache = es.c.cache
            /\ _reverse = es.c.reverse
            /\ _dirty = es.c.dirty
            /\ recency = es.order
    /\ evicted = << >>
    /\ last = Op("__init__", << >>, << >>, << >>, TRUE)
    /\ ExecIdle

NextMod == Execute(ModCommands, Faults)

SpecMod == InitMod /\ [][NextMod]_vars

\* The player methods the state modifiers call.
ModifierMethods == {"set_volume", "set_shuffle", "repeat_track", "transfer_player"}
IsModifierCall(call) == call.obj = "player" /\ call.m \in ModifierMethods
\* A call of the primary action: a collaborator method that is no modifier
\* method (constructions are not counted).
IsPrimaryCall(call) ==
    /\ call.obj \in {"player", "song", "artist", "playlist"}
    /\ ~IsModifierCall(call)
\* The indices of the calls of an attempt.
CallsOf(attempt) == {i \in 1..Len(calls) : calls[i].attempt = attempt}
\* The methods of the modifier calls of an attempt, in the order issued.
RECURSIVE ModifierMethodsOf(_, _)
ModifierMethodsOf(attempt, k) ==
    IF k = 0 THEN << >>
    ELSE IF calls[k].attempt = attempt /\ IsModifierCall(calls[k])
    THEN Append(ModifierMethodsOf(attempt, k - 1), calls[k].m)
    ELSE ModifierMethodsOf(attempt, k - 1)
\* The modifier calls the fixed order prescribes for a command.
ExpectedModifiers(c) ==
    (IF "volume" \in DOMAIN c THEN <<"set_volume">> ELSE << >>)
    \o (IF "volume_rel" \in DOMAIN c THEN <<"set_volume">> ELSE << >>)
    \o (IF "mode" \in DOMAIN c THEN <<"set_shuffle", "repeat_track">> ELSE << >>)
    \o (IF "device" \in DOMAIN c THEN <<"transfer_player">> ELSE << >>)
IsPrefix(p, q) == Len(p) <= Len(q) /\ p = SubSeq(q, 1, Len(p))

\* C16: in every attempt of an action command no call of the primary
\* action follows a state-modifier call, the modifier calls issued are a
\* prefix of: absolute volume, relative volume, set_shuffle, repeat_track,
\* transfer_player (those present), and an attempt that succeeds issues all
\* of them.
C16_PrimaryThenModifiersInOrder ==
    (Executed /\ "action" \in DOMAIN cmd) =>
        \A a \in 1..Len(outcomes) :
            /\ \A i \in CallsOf(a), j \in CallsOf(a) :
                   (i < j /\ IsModifierCall(calls[i])) => ~IsPrimaryCall(calls[j])
            /\ IsPrefix(ModifierMethodsOf(a, Len(calls)), ExpectedModifiers(cmd))
            /\ outcomes[a] = NoErr =>
                   ModifierMethodsOf(a, Len(calls)) = ExpectedModifiers(cmd)

\* pause with all four modifiers succeeded: pause, then the five modifier
\* calls.
C16_Witness ==
    /\ Returned
    /\ cmd.action = "pause"
    /\ DOMAIN cmd = {"action"} \cup Modifiers
    /\ \E i \in CallsOf(Len(outcomes)) : IsPrimaryCall(calls[i])
    /\ ModifierMethodsOf(Len(outcomes), Len(calls))
           = <<"set_volume", "set_volume", "set_shuffle", "repeat_track", "transfer_player">>

\* The methods of the primary calls of an attempt, in the order issued.
RECURSIVE PrimaryMethodsOf(_, _)
PrimaryMethodsOf(attempt, k) ==
    IF k = 0 THEN << >>
    ELSE IF calls[k].attempt = attempt /\ IsPrimaryCall(calls[k])
    THEN Append(PrimaryMethodsOf(attempt, k - 1), calls[k].m)
    ELSE PrimaryMethodsOf(attempt, k - 1)
\* The failure of the execute arose in a state modifier: in a modifier
\* call, or in the validation of a modifier.
ModifierMessages ==
    {"Volume must be 0-100", "Cannot determine current volume for relative adjustment",
     "Device not found. Available: ..."}
ModifierFailed ==
    /\ error # NoErr
    /\ \/ error.msg \in ModifierMessages
       \/ calls # << >> /\ ~calls[Len(calls)].ok /\ IsModifierCall(calls[Len(calls)])
\* The calls the primary action of a command of ModCommands consists of.
PrimaryOf(c) ==
    CASE c.action = "pause" -> <<"pause">>
      [] c.action = "like" -> <<"like_song">>
      [] c.action = "skip" -> <<"skip_next", "skip_next">>
      [] c.action = "queue" -> <<"add_to_queue">>
      [] c.action = "set" -> << >>

\* C17: when the primary action was performed and a state modifier then
\* fails with an error that is not retried, execute fails, and the calls it
\* issued are the primary action's calls, the calls of the modifiers
\* before the failing one and the failing call, all but the last
\* successful: nothing is issued after the failure to undo them.
C17_NoRollback ==
    (Executed /\ "action" \in DOMAIN cmd /\ Len(outcomes) = 1 /\ ModifierFailed) =>
        /\ ~Returned
        /\ result = NoResult
        /\ PrimaryMethodsOf(1, Len(calls)) = PrimaryOf(cmd)
        /\ IsPrefix(ModifierMethodsOf(1, Len(calls)), ExpectedModifiers(cmd))
        /\ \A i \in 1..Len(calls) : ~calls[i].ok => i = Len(calls)
        /\ \A i \in 1..Len(calls) :
               IsPrimaryCall(calls[i]) \/ IsModifierCall(calls[i]) \/ calls[i].obj = "Player"
                   \/ calls[i].obj = "Song" \/ calls[i].obj = "PrivatePlaylist"

\* pause was performed, the volume was set, and the transfer to the device
\* failed.
C17_Witness ==
    /\ Executed
    /\ ~Returned
    /\ Len(outcomes) = 1
    /\ cmd.action = "pause"
    /\ \E i \in 1..Len(calls) : calls[i].m = "pause" /\ calls[i].ok
    /\ \E i \in 1..Len(calls) : calls[i].m = "set_volume" /\ calls[i].ok
    /\ ModifierFailed

\* The command carries an absolute volume outside 0..100.
VolumeOutOfRange(c) == "volume" \in DOMAIN c /\ ~(0 <= c.volume /\ c.volume <= Percent)
SetVolumeCalls(attempt) == {i \in CallsOf(attempt) : calls[i].obj = "player" /\ calls[i].m = "set_volume"}
\* The failure of the execute arose in the primary action: in one of its
\* calls or constructions, or in the resolution of its target.
PrimaryFailed ==
    /\ error # NoErr
    /\ \/ error.msg = "not found. Use search first to find it."
       \/ calls # << >> /\ ~calls[Len(calls)].ok /\ ~IsModifierCall(calls[Len(calls)])

\* C18 as stated: every action command with an absolute volume outside
\* 0..100 fails with the validation error 'Volume must be 0-100', and no
\* set_volume call is issued.
C18_OutOfRangeAlwaysValidationError ==
    (Executed /\ "action" \in DOMAIN cmd /\ VolumeOutOfRange(cmd)) =>
        /\ error.type = "DSLError"
        /\ error.msg = "Volume must be 0-100"
        /\ \A a \in 1..Len(outcomes) : SetVolumeCalls(a) = {}

\* C18, amended: an action command with an absolute volume outside 0..100
\* always fails and no set_volume call is issued; the error is the
\* validation error 'Volume must be 0-100' whenever the primary action
\* completed, and the primary action's own error otherwise.
C18_OutOfRangeFails ==
    (Executed /\ "action" \in DOMAIN cmd /\ VolumeOutOfRange(cmd)) =>
        /\ ~Returned
        /\ error.type = "DSLError"
        /\ \A a \in 1..Len(outcomes) : SetVolumeCalls(a) = {}
        /\ ~PrimaryFailed =>
               (error.msg = "Volume must be 0-100" /\ error.cause = "none"
                /\ PrimaryMethodsOf(Len(outcomes), Len(calls)) = PrimaryOf(cmd))

\* pause with volume 101: the pause was issued, then the validation failed.
C18_Witness ==
    /\ Executed
    /\ cmd = [action |-> "pause", volume |-> 101]
    /\ error.msg = "Volume must be 0-100"
    /\ \E i \in 1..Len(calls) : calls[i].m = "pause" /\ calls[i].ok

(***************************************************************************)
(* SpecVolume: executors with different volume ceilings, on devices with    *)
(* different volumes, under commands that set the volume.                   *)
(***************************************************************************)
VolumeDevs ==
    {[volume |-> 32768, active |-> ActiveId, played |-> << >>],
     [volume |-> 62000, active |-> ActiveId, played |-> << >>],
     [volume |-> 3277, active |-> ActiveId, played |-> << >>],
     [volume |-> 32768, active |-> Gone, played |-> << >>]}
VolumeCeilings == {50, 100}
VolumeCommands ==
    {[action |-> "set", volume |-> 70],
     [action |-> "set", volume |-> 0],
     [action |-> "pause", volume |-> 30],
     [action |-> "set", volume_rel |-> 10],
     [action |-> "set", volume_rel |-> 20],
     [action |-> "set", volume_rel |-> 0 - 20],
     [action |-> "set", volume |-> 100, volume_rel |-> 0 - 20]}

InitVolume ==
    /\ dev \in VolumeDevs
    /\ _path = FALSE
    /\ disk = NoFile
    /\ _max_size = _MAX_SIZE
    /\ \E mv \in VolumeCeilings :
        \E es \in {__init__(_path, disk, mv, 0, FALSE, NoFault)} :
            /\ _player = es.player
            /\ players = es.players
            /\ _song = es.song
            /\ _artist = es.artist
            /\ _max_volume = es.max_volume
            /\ _cache = es.c.cache
            /\ _reverse = es.c.reverse
            /\ _dirty = es.c.dirty
            /\ recency = es.order
    /\ evicted = << >>
    /\ last = Op("__init__", << >>, << >>, << >>, TRUE)
    /\ ExecIdle

NextVolume == Execute(VolumeCommands, Faults)

SpecVolume == InitVolume /\ [][NextVolume]_vars

\* The first and the last set_volume call of an attempt that has one.
FirstSetVolume(a) == CHOOSE i \in SetVolumeCalls(a) : \A j \in SetVolumeCalls(a) : i <= j
LastSetVolume(a) == CHOOSE i \in SetVolumeCalls(a) : \A j \in SetVolumeCalls(a) : j <= i
\* The fraction p / 100, in the unit the calls are logged in.
Fraction(p) == p * DeviceVolumeMax

\* C19: an attempt that succeeds on a command with an absolute volume v in
\* 0..100 issues exactly one set_volume call for it (the first of the
\* attempt; a relative volume adds a second), with the fraction
\* min(v/100, c) for the ceiling c; the result of a set command reports
\* min(v, 100*c); v = 70 sends 0.70 and reports 70 under the ceiling 1.0,
\* and sends 0.50 and reports 50 under the ceiling 0.5.
C19_AbsoluteVolumeCapped ==
    (Executed /\ "action" \in DOMAIN cmd /\ "volume" \in DOMAIN cmd /\ ~VolumeOutOfRange(cmd)) =>
        /\ \A a \in 1..Len(outcomes) : outcomes[a] = NoErr =>
            /\ Cardinality(SetVolumeCalls(a)) = IF "volume_rel" \in DOMAIN cmd THEN 2 ELSE 1
            /\ calls[FirstSetVolume(a)].arg =
                   <<IF cmd.volume <= _max_volume THEN Fraction(cmd.volume) ELSE Fraction(_max_volume)>>
            /\ (cmd.volume = 70 /\ _max_volume = 100) =>
                   calls[FirstSetVolume(a)].arg = <<Fraction(70)>>
            /\ (cmd.volume = 70 /\ _max_volume = 50) =>
                   calls[FirstSetVolume(a)].arg = <<Fraction(50)>>
        /\ (Returned /\ cmd.action = "set") =>
            /\ result.volume = IF cmd.volume <= _max_volume THEN cmd.volume ELSE _max_volume
            /\ (cmd.volume = 70 /\ _max_volume = 100) => result.volume = 70
            /\ (cmd.volume = 70 /\ _max_volume = 50) => result.volume = 50

\* set volume 70 under the ceiling 0.5 returned.
C19_Witness ==
    /\ Returned
    /\ cmd = [action |-> "set", volume |-> 70]
    /\ _max_volume = 50
    /\ result = [status |-> "ok", action |-> "set", volume |-> 50]
    /\ \E i \in 1..Len(calls) : calls[i].m = "set_volume" /\ calls[i].arg = <<Fraction(50)>>

\* The sum current + d/100 for the device and the command, in the unit the
\* calls are logged in.
RelativeSum == dev.volume * Percent + cmd.volume_rel * DeviceVolumeMax
ActiveKnown == \E i \in 1..Len(Devices) : Devices[i].key = dev.active

\* Attempt a, which succeeded, sent in its last set_volume call the
\* device's volume / 65535 + d/100 clamped into [0, ceiling]: the ceiling
\* when the sum is at least the ceiling, 0 when it is at most 0; +10 from
\* 32768 sends about 0.60, +20 from 62000 sends 1.0 and -20 from 3277 sends
\* 0.0 under the ceiling 1.0.
SentClamped(a) ==
    LET sent == calls[LastSetVolume(a)].arg[1]
    IN  /\ Cardinality(SetVolumeCalls(a)) = IF "volume" \in DOMAIN cmd THEN 2 ELSE 1
        /\ RelativeSum >= Fraction(_max_volume) => sent = Fraction(_max_volume)
        /\ RelativeSum <= 0 => sent = 0
        /\ (0 < RelativeSum /\ RelativeSum < Fraction(_max_volume)) => sent = RelativeSum
        /\ (_max_volume = 100 /\ dev.volume = 32768 /\ cmd.volume_rel = 10) =>
               (Fraction(60) <= sent /\ sent < Fraction(61))
        /\ (_max_volume = 100 /\ dev.volume = 62000 /\ cmd.volume_rel = 20) =>
               sent = Fraction(100)
        /\ (dev.volume = 3277 /\ cmd.volume_rel = 0 - 20) => sent = 0

\* C20 as stated: an attempt that succeeds on a command with a relative
\* volume d sends the clamped sum; when the active device is not in the
\* directory the command fails and no set_volume call is issued.
C20_NoSetVolumeWithoutActiveDevice ==
    (Executed /\ "action" \in DOMAIN cmd /\ "volume_rel" \in DOMAIN cmd) =>
        \A a \in 1..Len(outcomes) :
            IF ~ActiveKnown
            THEN /\ outcomes[a] # NoErr
                 /\ ~Returned
                 /\ SetVolumeCalls(a) = {}
            ELSE outcomes[a] = NoErr => SentClamped(a)

\* C20 as amended: an attempt that succeeds on a command with a relative
\* volume d sends the clamped sum; when the active device is not in the
\* directory every attempt fails and issues no set_volume call for the
\* relative volume: the one set_volume call it may have issued is that of
\* the command's absolute volume, with the fraction of that volume.
C20_RelativeVolumeClamped ==
    (Executed /\ "action" \in DOMAIN cmd /\ "volume_rel" \in DOMAIN cmd) =>
        \A a \in 1..Len(outcomes) :
            IF ~ActiveKnown
            THEN /\ outcomes[a] # NoErr
                 /\ ~Returned
                 /\ Cardinality(SetVolumeCalls(a)) <= 1
                 /\ \A i \in SetVolumeCalls(a) :
                        /\ "volume" \in DOMAIN cmd
                        /\ calls[i].arg = <<Fraction(Min(cmd.volume, _max_volume))>>
            ELSE outcomes[a] = NoErr => SentClamped(a)

\* -20 from the device volume 3277 was sent as 0.0.
C20_Witness ==
    /\ Returned
    /\ cmd = [action |-> "set", volume_rel |-> 0 - 20]
    /\ dev.volume = 3277
    /\ \E i \in 1..Len(calls) : calls[i].m = "set_volume" /\ calls[i].arg = <<0>> /\ calls[i].ok

(***************************************************************************)
(* SpecDevice: a SpotifyExecutor under action commands with a device        *)
(* modifier.                                                                *)
(***************************************************************************)
den == <<"d","e","n">>
LAB == <<"L","A","B">>
DeviceCommands ==
    {[action |-> "set", device |-> Den],
     [action |-> "set", device |-> den],
     [action |-> "set", device |-> LAB],
     [action |-> "set", device |-> xy],
     [action |-> "pause", mode |-> "shuffle", device |-> Lab],
     [action |-> "pause", device |-> << >>]}

NextDevice == Execute(DeviceCommands, Faults)

SpecDevice == InitMod /\ [][NextDevice]_vars

TransferCalls(attempt) ==
    {i \in CallsOf(attempt) : calls[i].obj = "player" /\ calls[i].m = "transfer_player"}
\* The known devices whose name is the requested one ignoring letter case.
Matching(name) == {i \in 1..Len(Devices) : Lower(Devices[i].name) = Lower(name)}
DeviceNames == [i \in 1..Len(Devices) |-> Devices[i].name]
\* The attempt came to the device modifier: every call it issued succeeded
\* and no transfer was issued.
CameToDevice(a) ==
    /\ \A i \in CallsOf(a) : calls[i].ok
    /\ TransferCalls(a) = {}

\* C21: with a device modifier, an attempt never issues more than one
\* transfer_player; when a known device has the requested name ignoring
\* letter case, an attempt whose calls all succeed succeeds and issues
\* exactly one, from the player's own device id to the id of the (first)
\* matching device; when
\* none has, no transfer_player is issued, execute fails, and an attempt
\* that came to the device modifier fails with the error that names the
\* requested device and lists the names of the known devices.
C21_DeviceTransfer ==
    (Executed /\ "action" \in DOMAIN cmd /\ "device" \in DOMAIN cmd) =>
        \A a \in 1..Len(outcomes) :
            /\ Cardinality(TransferCalls(a)) <= 1
            /\ IF Matching(cmd.device) # {}
               THEN /\ (\A i \in CallsOf(a) : calls[i].ok) => outcomes[a] = NoErr
                    /\ outcomes[a] = NoErr =>
                        \E i \in TransferCalls(a), d \in Matching(cmd.device) :
                            /\ calls[i].arg = <<PlayerDeviceId, Devices[d].device_id>>
                            /\ \A e \in Matching(cmd.device) : d <= e
               ELSE /\ TransferCalls(a) = {}
                    /\ outcomes[a] # NoErr
                    /\ ~Returned
                    /\ CameToDevice(a) =>
                           /\ outcomes[a].type = "DSLError"
                           /\ outcomes[a].msg = "Device not found. Available: ..."
                           /\ outcomes[a].detail = <<cmd.device, DeviceNames>>

\* The device named LAB was found as Lab and playback was transferred to it.
C21_Witness ==
    /\ Returned
    /\ cmd = [action |-> "set", device |-> LAB]
    /\ \E i \in 1..Len(calls) :
           calls[i].m = "transfer_player" /\ calls[i].arg = <<"dev0", "dev1">> /\ calls[i].ok

(***************************************************************************)
(* SpecPlay: a SpotifyExecutor whose cache may know the track abc, under    *)
(* play and queue commands.                                                 *)
(***************************************************************************)
PlayCommands ==
    {[action |-> "play", target |-> ABc],
     [action |-> "play", target |-> abc, kind |-> track, context |-> << >>],
     [action |-> "play", target |-> trackX],
     [action |-> "play", target |-> xy],
     [action |-> "play", target |-> ABc, context |-> playlistX],
     [action |-> "play", target |-> ABc, context |-> xy],
     [action |-> "play", target |-> trackX, context |-> xy],
     [action |-> "play", target |-> albumX, context |-> xy],
     [action |-> "play", target |-> abc, kind |-> album],
     [action |-> "queue", target |-> xy],
     [action |-> "queue", target |-> ABc]}

NextPlay == Execute(PlayCommands, Faults)

SpecPlay == InitExec /\ [][NextPlay]_vars

\* The player calls of an attempt, as <<method, arguments>>, in the order
\* issued.
RECURSIVE PlayerCallsOf(_, _)
PlayerCallsOf(attempt, k) ==
    IF k = 0 THEN << >>
    ELSE IF calls[k].attempt = attempt /\ calls[k].obj = "player"
    THEN Append(PlayerCallsOf(attempt, k - 1), <<calls[k].m, calls[k].arg>>)
    ELSE PlayerCallsOf(attempt, k - 1)
\* play of a name as a track, without context.
PlaysTrackName(c) ==
    /\ "action" \in DOMAIN c /\ c.action = "play"
    /\ ~_is_uri(c.target)
    /\ Get0(c, "kind", track) = track
    /\ Get0(c, "context", << >>) = << >>

\* C22: an attempt that succeeds on play of a track name without context
\* has resolved the name from the cache (the name's key is the most
\* recently used) and has issued to the player exactly add_to_queue of the
\* resolved identifier and then skip_next; the result of the execute
\* carries the resolved identifier as resolved_uri, which differs from the
\* target here.
C22_PlayNameQueuesThenSkips ==
    (Executed /\ PlaysTrackName(cmd)) =>
        /\ \A a \in 1..Len(outcomes) : outcomes[a] = NoErr =>
            /\ resolve(_cache, track, cmd.target).found
            /\ recency[Len(recency)] = resolve(_cache, track, cmd.target).key
            /\ PlayerCallsOf(a, Len(calls)) =
                   <<<<"add_to_queue", <<resolve(_cache, track, cmd.target).uri>>>>,
                     <<"skip_next", << >>>>>>
            /\ cmd.target \in {abc, ABc} =>
                   PlayerCallsOf(a, Len(calls))[1] = <<"add_to_queue", <<u1>>>>
        /\ Returned =>
            /\ result.target = cmd.target
            /\ result.kind = track
            /\ "resolved_uri" \in DOMAIN result
            /\ result.resolved_uri = resolve(_cache, track, cmd.target).uri
            /\ result.resolved_uri # cmd.target

\* play " ABc " found the cached abc, queued u1 and skipped to it.
C22_Witness ==
    /\ Returned
    /\ cmd = [action |-> "play", target |-> ABc]
    /\ result = [status |-> "ok", action |-> "play", kind |-> track, target |-> ABc,
                 resolved_uri |-> u1]
    /\ PlayerCallsOf(1, Len(calls)) = <<<<"add_to_queue", <<u1>>>>, <<"skip_next", << >>>>>>

\* The player methods that start playback.
PlaybackMethods == {"play_context", "play_track", "add_to_queue", "skip_next"}
PlaybackCalls == {i \in 1..Len(calls) : calls[i].obj = "player" /\ calls[i].m \in PlaybackMethods}
\* play with a context that is present and is no identifier.
PlaysInBadContext(c) ==
    /\ "action" \in DOMAIN c /\ c.action = "play"
    /\ "context" \in DOMAIN c /\ Len(c.context) > 0
    /\ ~_is_uri(c.context)

\* C23: a play command whose context is present and is no identifier
\* fails, and no play_context, play_track, add_to_queue or skip_next call
\* is issued, whatever the target, also when the target is an album or a
\* playlist.
C23_BadContextStartsNothing ==
    (Executed /\ PlaysInBadContext(cmd)) =>
        /\ ~Returned
        /\ PlaybackCalls = {}

\* play or queue of a target that is no identifier and that the cache does
\* not resolve under the kind the command looks it up with.
NameUnresolved(c) ==
    /\ "action" \in DOMAIN c /\ c.action \in {"play", "queue"}
    /\ ~_is_uri(c.target)
    /\ ~resolve(_cache, IF c.action = "play" THEN Get0(c, "kind", track) ELSE track,
                c.target).found

\* C24: play or queue of a name the cache cannot resolve fails with the
\* not-found error that names the target and advises to search first; the
\* command is attempted once and no collaborator is called at all: no
\* catalog search, no player call, no player construction.
C24_UnresolvedNameNotFound ==
    (Executed /\ NameUnresolved(cmd)) =>
        /\ error = DSLErrorWith("not found. Use search first to find it.", TRUE, <<cmd.target>>)
        /\ Len(outcomes) = 1
        /\ calls = << >>

C24_Witness ==
    /\ Executed
    /\ cmd = [action |-> "play", target |-> abc, kind |-> album]
    /\ resolve(_cache, track, abc).found
    /\ error.type = "DSLError" /\ error.detail = <<abc>>
    /\ calls = << >>

SkipCounts == {3, 1, 0, -1, -2}
SkipCommands ==
    {[action |-> "skip"]} \cup {[action |-> "skip", n |-> k] : k \in SkipCounts}
NextSkip == Execute(SkipCommands, Faults)
SpecSkip == InitExec /\ [][NextSkip]_vars

MethodCalls(attempt, method) ==
    {i \in PlayerCalls(attempt) : calls[i].m = method}

\* C25: an attempt of skip in which nothing fails issues, as its only
\* player calls, n skip_next calls when n >= 0 and -n skip_prev calls when
\* n < 0, none for n = 0; a command without n behaves as n = 1.
C25_SkipCallsCount ==
    (Executed /\ cmd.action = "skip") =>
        LET n == IF "n" \in DOMAIN cmd THEN cmd.n ELSE 1
        IN  /\ \A a \in 1..Len(outcomes) : outcomes[a] = NoErr =>
                /\ Cardinality(MethodCalls(a, "skip_next")) = (IF n >= 0 THEN n ELSE 0)
                /\ Cardinality(MethodCalls(a, "skip_prev")) = (IF n < 0 THEN -n ELSE 0)
                /\ Cardinality(PlayerCalls(a)) = Abs(n)
            /\ Returned => result = [status |-> "ok", action |-> "skip", n |-> n]

C25_Witness ==
    /\ Returned
    /\ cmd = [action |-> "skip", n |-> -2]
    /\ Len(outcomes) = 1
    /\ Cardinality(MethodCalls(1, "skip_prev")) = 2
    /\ MethodCalls(1, "skip_next") = {}

UnknownCommands ==
    {[action |-> "bogus"],
     [action |-> "bogus", volume |-> 30, mode |-> "shuffle", device |-> Den],
     [action |-> "bogus", target |-> trackX, volume_rel |-> 10],
     [action |-> "devices", volume |-> 150],
     [query |-> "bogus"],
     [query |-> "bogus", volume |-> 30, device |-> Den],
     [query |-> "pause", target |-> trackX],
     [action |-> "pause", volume |-> 30],
     [action |-> "set", device |-> Den],
     [query |-> "get_devices"]}
NextUnknown == Execute(UnknownCommands, Faults)
SpecUnknown == InitMod /\ [][NextUnknown]_vars

\* The action names _dispatch_action has a branch or a handler for.
KnownActions ==
    DOMAIN _SIMPLE_TARGET_ACTIONS \cup DOMAIN _PLAYLIST_ACTIONS
        \cup {"pause", "resume", "set"} \cup ActionHandlers
UnknownAction(c) == "action" \in DOMAIN c /\ c.action \notin KnownActions
UnknownQuery(c) ==
    "action" \notin DOMAIN c /\ "query" \in DOMAIN c /\ c.query \notin QueryHandlers

\* C26: a command whose action name, or whose query name, is not
\* recognized fails with the DSLError that names the unrecognized token and
\* carries the command; it is attempted once, and no collaborator is called
\* and no modifier is applied (the call log is empty) even when the command
\* has modifier fields.
C26_UnknownNameFails ==
    /\ (Executed /\ UnknownAction(cmd)) =>
        /\ error = DSLErrorWith("Unknown action", TRUE, <<cmd.action>>)
        /\ Len(outcomes) = 1
        /\ calls = << >>
    /\ (Executed /\ UnknownQuery(cmd)) =>
        /\ error = DSLErrorWith("Unknown query", TRUE, <<cmd.query>>)
        /\ Len(outcomes) = 1
        /\ calls = << >>

C26_Witness ==
    /\ Executed
    /\ cmd = [action |-> "bogus", volume |-> 30, mode |-> "shuffle", device |-> Den]
    /\ error.msg = "Unknown action" /\ error.detail = <<"bogus">>
    /\ calls = << >>
    /\ _player # 0

RecommendCommands ==
    {[query |-> "recommend", target |-> ABc],
     [query |-> "recommend", target |-> xy, n |-> 5],
     [query |-> "recommend", target |-> trackX, n |-> 5],
     [query |-> "recommend", target |-> albumX],
     [query |-> "recommend", target |-> playlistX, n |-> 5],
     [query |-> "recommend", target |-> playlistX],
     [action |-> "queue", target |-> xy]}
NextRecommend == Execute(RecommendCommands, Faults)
SpecRecommend == InitExec /\ [][NextRecommend]_vars

Recommends(c) == "action" \notin DOMAIN c /\ "query" \in DOMAIN c /\ c.query = "recommend"
IsPlaylistUri(target) == _is_uri(target) /\ _uri_kind(target) = playlist

\* C27: an execute of recommend whose target is a name, or an identifier of
\* a kind other than playlist, fails with the validation error naming the
\* target, is attempted once, builds no playlist handle and calls no
\* collaborator (its call log is empty), and leaves the cache, the reverse
\* map and the dirty flag as they were; an execute of recommend that
\* called recommended_songs had a playlist identifier as target.
C27_RecommendNeedsPlaylistUri ==
    [][(cmd' # NoCmd /\ Recommends(cmd')) =>
        /\ ~IsPlaylistUri(cmd'.target) =>
            /\ error' = DSLErrorWith("recommend requires a playlist URI", TRUE, <<cmd'.target>>)
            /\ Len(outcomes') = 1
            /\ calls' = << >>
            /\ _cache' = _cache /\ _reverse' = _reverse /\ _dirty' = _dirty
        /\ (\E i \in 1..Len(calls') : calls'[i].m = "recommended_songs") =>
            IsPlaylistUri(cmd'.target)]_vars

C27_Witness ==
    /\ Executed
    /\ cmd = [query |-> "recommend", target |-> ABc]
    /\ resolve(_cache, track, ABc).found
    /\ error.type = "DSLError" /\ error.detail = <<ABc>>
    /\ calls = << >>

\* The recently played lists: tracks as [uri, title].
PlayedLists ==
    {<< >>,
     <<[uri |-> u1, title |-> << >>]>>,
     <<[uri |-> u2, title |-> xy], [uri |-> u1, title |-> << >>], [uri |-> ua, title |-> << >>]>>}
HistoryDevs == {[volume |-> 32768, active |-> ActiveId, played |-> p] : p \in PlayedLists}
HistoryLimits == {0, 1, 2, 5}
HistoryCommands ==
    {[query |-> "history"]} \cup {[query |-> "history", limit |-> k] : k \in HistoryLimits}
        \cup {[action |-> "queue", target |-> Ann]}

InitHistory ==
    /\ dev \in HistoryDevs
    /\ _path = TRUE
    /\ disk \in ExecFiles
    /\ _max_size = _MAX_SIZE
    /\ \E mv \in MaxVolumes :
        \E es \in {__init__(_path, disk, mv, 0, FALSE, NoFault)} :
            /\ _player = es.player
            /\ players = es.players
            /\ _song = es.song
            /\ _artist = es.artist
            /\ _max_volume = es.max_volume
            /\ _cache = es.c.cache
            /\ _reverse = es.c.reverse
            /\ _dirty = es.c.dirty
            /\ recency = es.order
    /\ evicted = << >>
    /\ last = Op("__init__", << >>, << >>, << >>, TRUE)
    /\ ExecIdle
NextHistory == Execute(HistoryCommands, Faults)
SpecHistory == InitHistory /\ [][NextHistory]_vars

AsksHistory(c) == "action" \notin DOMAIN c /\ "query" \in DOMAIN c /\ c.query = "history"

\* C28: a history query with limit N that returns has as its data the
\* first N entries of the player's recently played list: at most N tracks,
\* all of them when the list has no more than N.
C28_HistoryTruncatedToLimit ==
    (Returned /\ AsksHistory(cmd) /\ "limit" \in DOMAIN cmd) =>
        /\ Len(result.data) = SliceLen(Len(dev.played), cmd.limit)
        /\ \A i \in 1..Len(result.data) : result.data[i].uri = dev.played[i].uri

\* The last attempt ended in the exception of a collaborator call: the call
\* log ends with a call of that attempt that raised.  (An exception that
\* the code swallows, as ws.close() of _reset_player or the fetch of
\* _enrich_tracks, is followed by further entries.)
EndedInRaise ==
    /\ calls # << >>
    /\ calls[Len(calls)].attempt = Len(outcomes)
    /\ ~calls[Len(calls)].ok
    /\ calls[Len(calls)].obj # "player.ws"

\* C29: an execute either returns a result whose status is ok, and raises
\* nothing, or raises a DSLError and returns nothing; when its last
\* attempt, the first or the second, ended in the exception of a
\* collaborator call, the error is the DSLError made from that exception:
\* it has the exception as cause and carries its type and message; the
\* result never holds an error.
C29_ResultOrDSLError ==
    Executed =>
        /\ \/ error = NoErr /\ result # NoResult /\ result.status = "ok"
           \/ error.type = "DSLError" /\ result = NoResult
        /\ EndedInRaise =>
            /\ error.cause \in {"WebSocketError", "RuntimeError"}
            /\ error = Wrapped(Exc(error.cause))
            /\ error.msg = Exc(error.cause).msg
        /\ DOMAIN result \cap {"error", "exception"} = {}

C29_Witness ==
    /\ Executed
    /\ Len(outcomes) = 2
    /\ IsStale(outcomes[1])
    /\ EndedInRaise
    /\ error = Wrapped(Exc("RuntimeError"))

\* C30: every error an execute raises carries the command that was
\* executed, whichever the error: unknown action or query, not found,
\* volume out of range, active device unknown for a relative volume,
\* device not found, play context, wrapped collaborator failure.
C30_ErrorCarriesCommand ==
    (Executed /\ error # NoErr) => error.command

(***************************************************************************)
(* The parser: text, already split into tokens, to a command.  A token is  *)
(* a bare word, a string (a quoted segment or an identifier) or a number,  *)
(* signed when it is written with + or -.                                  *)
(***************************************************************************)
Word(w) == [word |-> w]
Str(x) == [str |-> x]
Num(n) == [num |-> n, signed |-> FALSE]
Signed(n) == [num |-> n, signed |-> TRUE]
IsWord(t, w) == "word" \in DOMAIN t /\ t.word = w
IsStr(t) == "str" \in DOMAIN t
IsNum(t) == "num" \in DOMAIN t
From(t, i) == SubSeq(t, i, Len(t))
With(c, field, v) == [k \in DOMAIN c \cup {field} |-> IF k = field THEN v ELSE c[k]]

TargetVerbs == {"like", "unlike", "follow", "unfollow", "save", "unsave", "queue"}
SearchTypes == {"tracks", "artists", "albums", "playlists"}
Modes == {"shuffle", "repeat", "normal"}
StateModifierWords == {"volume", "mode", "on", "device"}
QueryModifierWords == {"limit", "offset"}

\* A keyword that is matched without regard to case: the keyword, in lower
\* case, that the word w writes in some mix of cases, or w when it writes
\* none of them.
FoldWord(w) ==
    LET keywords == {tracks, artists, albums, playlists,
                     <<"s","h","u","f","f","l","e">>, <<"r","e","p","e","a","t">>,
                     <<"n","o","r","m","a","l">>}
        UpperChar(ch) ==
            IF \E i \in 1..Len(LowerCase) : LowerCase[i] = ch
            THEN UpperCase[CHOOSE i \in 1..Len(LowerCase) : LowerCase[i] = ch]
            ELSE ch
        RECURSIVE Text(_)
        Text(r) == IF r = << >> THEN "" ELSE r[1] \o Text(Tail(r))
        RECURSIVE Written(_)
        Written(r) ==
            IF r = << >> THEN {""}
            ELSE {h \o t : h \in {r[1], UpperChar(r[1])}, t \in Written(Tail(r))}
    IN  IF \E k \in keywords : w \in Written(k)
        THEN Text(CHOOSE k \in keywords : w \in Written(k))
        ELSE w

ParseFail == [ok |-> FALSE]
\* A recognized form: its command, the modifiers its class takes and the
\* tokens that follow it.
Form(c, class, rest) == [ok |-> TRUE, cmd |-> c, class |-> class, rest |-> rest]

\* [TYPE] of search and library
TypeOfWord(word) ==
    CASE word = "tracks" -> tracks
      [] word = "artists" -> artists
      [] word = "albums" -> albums
      [] word = "playlists" -> playlists
WithType(c, class, r) ==
    IF r # << >> /\ "word" \in DOMAIN r[1] /\ FoldWord(r[1].word) \in SearchTypes
    THEN Form(With(c, "type", TypeOfWord(FoldWord(r[1].word))), class, Tail(r))
    ELSE Form(c, class, r)

\* The recognized forms, without their trailing modifiers.
ParsePrimary(t) ==
    IF t = << >> \/ "word" \notin DOMAIN t[1] THEN ParseFail
    ELSE LET w == t[1].word
             r == Tail(t)
         IN  CASE w \in {"pause", "resume"} -> Form([action |-> w], "action", r)
               [] w \in TargetVerbs ->
                    IF r # << >> /\ IsStr(r[1])
                    THEN Form([action |-> w, target |-> r[1].str], "action", Tail(r))
                    ELSE ParseFail
               [] w = "play" ->
                    IF r = << >> \/ ~IsStr(r[1]) THEN ParseFail
                    ELSE IF Len(r) >= 3 /\ IsWord(r[2], "in") /\ IsStr(r[3])
                    THEN Form([action |-> "play", target |-> r[1].str, context |-> r[3].str],
                              "action", From(r, 4))
                    ELSE Form([action |-> "play", target |-> r[1].str], "action", Tail(r))
               [] w = "skip" ->
                    IF r # << >> /\ IsNum(r[1])
                    THEN Form([action |-> "skip", n |-> r[1].num], "action", Tail(r))
                    ELSE Form([action |-> "skip", n |-> 1], "action", r)
               [] w = "seek" ->
                    IF r # << >> /\ IsNum(r[1]) /\ ~r[1].signed
                    THEN Form([action |-> "seek", position_ms |-> r[1].num], "action", Tail(r))
                    ELSE ParseFail
               [] w \in {"add", "remove"} ->
                    IF Len(r) >= 3 /\ IsStr(r[1]) /\ IsStr(r[3])
                       /\ IsWord(r[2], IF w = "add" THEN "to" ELSE "from")
                    THEN Form([action |-> IF w = "add" THEN "playlist_add" ELSE "playlist_remove",
                               track |-> r[1].str, playlist |-> r[3].str], "action", From(r, 4))
                    ELSE ParseFail
               [] w \in {"create", "delete"} ->
                    IF Len(r) >= 2 /\ IsWord(r[1], "playlist") /\ IsStr(r[2])
                    THEN IF w = "create"
                         THEN Form([action |-> "playlist_create", name |-> r[2].str],
                                   "action", From(r, 3))
                         ELSE Form([action |-> "playlist_delete", target |-> r[2].str],
                                   "action", From(r, 3))
                    ELSE ParseFail
               [] w \in StateModifierWords -> Form([action |-> "set"], "set", t)
               [] w = "search" ->
                    IF r # << >> /\ IsStr(r[1])
                    THEN WithType([query |-> "search", term |-> r[1].str], "paged", Tail(r))
                    ELSE ParseFail
               [] w = "library" -> WithType([query |-> "library"], "paged", r)
               [] w = "history" -> Form([query |-> "history"], "limited", r)
               [] w = "now" ->
                    IF r # << >> /\ IsWord(r[1], "playing")
                    THEN Form([query |-> "now_playing"], "query", Tail(r))
                    ELSE ParseFail
               [] w = "get" ->
                    IF r # << >> /\ IsWord(r[1], "queue")
                    THEN Form([query |-> "get_queue"], "query", Tail(r))
                    ELSE IF r # << >> /\ IsWord(r[1], "devices")
                    THEN Form([query |-> "get_devices"], "query", Tail(r))
                    ELSE ParseFail
               [] w = "info" ->
                    IF r # << >> /\ IsStr(r[1])
                    THEN Form([query |-> "info", target |-> r[1].str], "query", Tail(r))
                    ELSE ParseFail
               [] w = "recommend" ->
                    IF Len(r) >= 3 /\ IsNum(r[1]) /\ ~r[1].signed /\ IsWord(r[2], "for")
                       /\ IsStr(r[3])
                    THEN Form([query |-> "recommend", n |-> r[1].num, target |-> r[3].str],
                              "query", From(r, 4))
                    ELSE IF Len(r) >= 2 /\ IsWord(r[1], "for") /\ IsStr(r[2])
                    THEN Form([query |-> "recommend", target |-> r[2].str], "query", From(r, 3))
                    ELSE ParseFail
               [] OTHER -> ParseFail

\* One trailing modifier of a command of the given class: a state modifier
\* on an action (or on set), limit or offset on search and library, limit
\* on history.
ParseModifierAnyClass(c, class, r) ==
    IF Len(r) < 2 \/ "word" \notin DOMAIN r[1] THEN ParseFail
    ELSE LET w == r[1].word
             a == r[2]
         IN  IF w = "volume" /\ IsNum(a)
             THEN Form(With(c, IF a.signed THEN "volume_rel" ELSE "volume", a.num),
                       class, From(r, 3))
             ELSE IF w = "mode" /\ "word" \in DOMAIN a /\ FoldWord(a.word) \in Modes
             THEN Form(With(c, "mode", FoldWord(a.word)), class, From(r, 3))
             ELSE IF w \in {"on", "device"} /\ IsStr(a)
             THEN Form(With(c, "device", a.str), class, From(r, 3))
             ELSE IF w \in QueryModifierWords /\ IsNum(a) /\ ~a.signed
             THEN Form(With(c, w, a.num), class, From(r, 3))
             ELSE ParseFail
ParseModifier(c, class, r) ==
    IF Len(r) < 2 \/ "word" \notin DOMAIN r[1] THEN ParseFail
    ELSE LET w == r[1].word
             a == r[2]
         IN  IF class \in {"action", "set"}
             THEN IF w = "volume" /\ IsNum(a)
                  THEN Form(With(c, IF a.signed THEN "volume_rel" ELSE "volume", a.num),
                            class, From(r, 3))
                  ELSE IF w = "mode" /\ "word" \in DOMAIN a /\ FoldWord(a.word) \in Modes
                  THEN Form(With(c, "mode", FoldWord(a.word)), class, From(r, 3))
                  ELSE IF w \in {"on", "device"} /\ IsStr(a)
                  THEN Form(With(c, "device", a.str), class, From(r, 3))
                  ELSE ParseFail
             ELSE IF /\ \/ class = "paged" /\ w \in QueryModifierWords
                        \/ class = "limited" /\ w = "limit"
                     /\ IsNum(a) /\ ~a.signed
             THEN Form(With(c, w, a.num), class, From(r, 3))
             ELSE ParseFail

\* The trailing modifiers, to the end of the text.
RECURSIVE ParseModifiers(_)
ParseModifiers(form) ==
    The({IF ~f.ok \/ f.rest = << >> THEN f
         ELSE ParseModifiers(ParseModifier(f.cmd, f.class, f.rest))
         : f \in {form}})

\* parse: the command, or ParseFail for a ParseError.  Modifiers without a
\* verb make a set command.
parse(t) ==
    The({IF ~f.ok THEN ParseFail ELSE [ok |-> TRUE, cmd |-> f.cmd]
         : f \in {ParseModifiers(ParsePrimary(t))}})

(***************************************************************************)
(* SpecParse: texts made of a recognized form, or of none, followed by up  *)
(* to MaxModifiers trailing modifiers of either class.                     *)
(***************************************************************************)
MaxModifiers == 2
PrimaryTexts ==
    {<< >>,
     <<Word("pause")>>,
     <<Word("play"), Str(abc)>>,
     <<Word("play"), Str(abc), Word("in"), Str(playlistX)>>,
     <<Word("skip")>>,
     <<Word("skip"), Signed(0 - 1)>>,
     <<Word("queue"), Str(xy)>>,
     <<Word("add"), Str(trackX), Word("to"), Str(xy)>>,
     <<Word("search"), Str(abc)>>,
     <<Word("search"), Str(abc), Word("artists")>>,
     <<Word("library"), Word("Albums")>>,
     <<Word("library")>>,
     <<Word("history")>>,
     <<Word("get"), Word("devices")>>,
     <<Word("info"), Str(abc)>>,
     <<Word("recommend"), Num(5), Word("for"), Str(playlistX)>>,
     <<Word("explode"), Word("everything")>>}
ModifierTexts ==
    {<<Word("volume"), Num(70)>>,
     <<Word("volume"), Signed(10)>>,
     <<Word("mode"), Word("shuffle")>>,
     <<Word("mode"), Word("REPEAT")>>,
     <<Word("on"), Str(Den)>>,
     <<Word("limit"), Num(5)>>,
     <<Word("offset"), Num(40)>>}
RECURSIVE Concat(_)
Concat(ts) == IF ts = << >> THEN << >> ELSE Head(ts) \o Concat(Tail(ts))
Texts ==
    {p \o Concat(ms) : p \in PrimaryTexts,
                       ms \in UNION {[1..k -> ModifierTexts] : k \in 0..MaxModifiers}}

Parse ==
    /\ ~parsed.done
    /\ \E t \in Texts :
        \E r \in {parse(t)} :
            parsed' = [done |-> TRUE, ok |-> r.ok, text |-> t,
                       cmd |-> IF r.ok THEN r.cmd ELSE NoCmd]
    /\ UNCHANGED <<cacheVars, _player, players, _song, _artist, _max_volume, resetTo, cmd,
                   calls, outcomes, result, error, closeRaised, dev>>
InitParse == InitCache /\ _max_size = 1
NextParse == Parse
SpecParse == InitParse /\ [][NextParse]_vars

QueryVerbs == {"search", "library", "history", "now", "get", "info", "recommend"}
ActionVerbs ==
    {"pause", "resume", "play", "skip", "seek", "add", "remove", "create", "delete"}
        \cup TargetVerbs \cup StateModifierWords
HasWordOf(t, from, words) ==
    \E i \in from..Len(t) : "word" \in DOMAIN t[i] /\ t[i].word \in words
StartsWithWordOf(t, words) == t # << >> /\ "word" \in DOMAIN t[1] /\ t[1].word \in words

\* C31: parsing a text that starts as a query and has a state modifier
\* (volume, mode, on, device) after it fails, and so does parsing a text
\* that starts as an action, or as a bare modifier, and has limit or offset
\* after it; a command that is parsed has exactly one of the keys action
\* and query, a query command has no state modifier field and an action
\* command no limit or offset.
C31_ModifiersByCommandClass ==
    parsed.done =>
        /\ (StartsWithWordOf(parsed.text, QueryVerbs)
              /\ HasWordOf(parsed.text, 2, StateModifierWords)) => ~parsed.ok
        /\ (StartsWithWordOf(parsed.text, ActionVerbs)
              /\ HasWordOf(parsed.text, 2, QueryModifierWords)) => ~parsed.ok
        /\ parsed.ok =>
            /\ Cardinality(DOMAIN parsed.cmd \cap {"action", "query"}) = 1
            /\ "query" \in DOMAIN parsed.cmd =>
                   DOMAIN parsed.cmd \cap {"volume", "volume_rel", "mode", "device"} = {}
            /\ "action" \in DOMAIN parsed.cmd =>
                   DOMAIN parsed.cmd \cap QueryModifierWords = {}

C31_Witness ==
    /\ parsed.done
    /\ parsed.text = <<Word("search"), Str(abc), Word("volume"), Num(70)>>
    /\ ~parsed.ok

(***************************************************************************)
(* SpecInfo: an executor whose cache knows names of several kinds, under   *)
(* the info query.                                                          *)
(***************************************************************************)
artistX == spotify \o colon \o artist \o colon \o <<"x">>
showX == spotify \o colon \o <<"s","h","o","w">> \o colon \o <<"x">>
\* abc is an artist and a track, xy a track, jazz an album.
InfoRecord ==
    save(add(add(add(add(EmptyCache, track, abc, trackX, _MAX_SIZE),
                     artist, abc, artistX, _MAX_SIZE),
                 track, xy, trackX, _MAX_SIZE),
             album, jazz, albumX, _MAX_SIZE), TRUE, NoFile).disk
InfoCommands ==
    {[query |-> "info", target |-> t] : t \in {abc, abcd, xy, u1, playlistX, showX}}
        \cup {[query |-> "info", target |-> jazz, limit |-> 5, offset |-> 2]}
InfoFaults ==
    {NoFault, [at |-> 1, kind |-> "WebSocketError"], [at |-> 2, kind |-> "RuntimeError"]}
InitInfo ==
    /\ dev = [volume |-> 32768, active |-> ActiveId, played |-> << >>]
    /\ _path = TRUE
    /\ disk \in {InfoRecord}
    /\ _max_size = _MAX_SIZE
    /\ \E mv \in MaxVolumes :
        \E es \in {__init__(_path, disk, mv, 0, FALSE, NoFault)} :
            /\ _player = es.player
            /\ players = es.players
            /\ _song = es.song
            /\ _artist = es.artist
            /\ _max_volume = es.max_volume
            /\ _cache = es.c.cache
            /\ _reverse = es.c.reverse
            /\ _dirty = es.c.dirty
            /\ recency = es.order
    /\ evicted = << >>
    /\ last = Op("__init__", << >>, << >>, << >>, TRUE)
    /\ ExecIdle
NextInfo == Execute(InfoCommands, InfoFaults)
SpecInfo == InitInfo /\ [][NextInfo]_vars

AsksInfo(c) == "action" \notin DOMAIN c /\ "query" \in DOMAIN c /\ c.query = "info"
\* The kinds, in the order of InfoKinds, under which the cache d resolves name.
ResolvingKinds(d, name) ==
    SelectSeq(<<artist, track, album, playlist>>, LAMBDA k : resolve(d, k, name).found)
\* The collaborator object that answers for identifiers of a kind.
InfoObject(kind) ==
    CASE kind = track -> "song" [] kind = artist -> "artist" [] kind = album -> "album"
      [] kind = playlist -> "public_playlist" [] OTHER -> "none"
InfoObjects == {"song", "artist", "album", "public_playlist"}

\* C32: an execute of info whose target is a name: when the cache, as it
\* was before the command, resolves the name under no kind, it fails with
\* the not-found error and calls no collaborator; otherwise the identifier
\* used is the one the first of artist, track, album, playlist that
\* resolves it gives: every catalog call of the command is made on the
\* collaborator of that identifier's kind, for its bare id, a successful
\* attempt makes exactly one, and the result has the identifier as target.
C32_InfoResolvesInKindOrder ==
    [][(cmd' # NoCmd /\ AsksInfo(cmd') /\ ~_is_uri(cmd'.target)) =>
        \A kinds \in {ResolvingKinds(_cache, cmd'.target)} :
            IF kinds = << >>
            THEN /\ error' = DSLErrorWith("not found. Use search first to find it.", TRUE,
                                          <<cmd'.target>>)
                 /\ calls' = << >>
            ELSE \A uri \in {resolve(_cache, kinds[1], cmd'.target).uri} :
                 \A bare_id \in {_extract_id(uri, _uri_kind(uri))} :
                 \A asked \in {{i \in 1..Len(calls') : calls'[i].obj \in InfoObjects}} :
                    /\ \A i \in asked :
                        /\ calls'[i].obj = InfoObject(_uri_kind(uri))
                        /\ IF calls'[i].obj \in {"song", "artist"}
                           THEN calls'[i].arg = <<bare_id>>
                           ELSE /\ calls'[i - 1].m = "__init__"
                                /\ calls'[i - 1].arg = <<bare_id>>
                    /\ \A a \in 1..Len(outcomes') :
                        outcomes'[a] = NoErr =>
                            Cardinality({i \in asked : calls'[i].attempt = a}) = 1
                    /\ error' = NoErr => result'.target = uri]_vars

\* abc is cached as a track and as an artist: the artist is asked.
C32_Witness ==
    /\ Returned
    /\ cmd = [query |-> "info", target |-> abc]
    /\ result.target = artistX
    /\ \E i \in 1..Len(calls) : calls[i].obj = "artist" /\ calls[i].m = "get_artist"
                                 /\ calls[i].arg = <<<<"x">>>>
    /\ resolve(_cache, track, abc).found

\* The player calls of the last execute that were carried out, all attempts
\* together, and those of its last attempt, for one method.
Performed(method) ==
    {i \in 1..Len(calls) : calls[i].obj = "player" /\ calls[i].m = method /\ calls[i].ok}
PerformedLast(method) == {i \in Performed(method) : calls[i].attempt = Len(outcomes)}
SideEffectMethods == {"skip_next", "skip_prev", "add_to_queue", "play_context", "play_track"}

\* C33: when an execute returns, each side-effect call of the command has
\* been carried out as many times as the attempt that succeeded, a run
\* without failure, carries it out; a first attempt that failed part-way
\* with a stale connection adds nothing to that.
C33_SideEffectsExactlyOnce ==
    Returned =>
        \A method \in SideEffectMethods :
            Cardinality(Performed(method)) = Cardinality(PerformedLast(method))

\* The handles on which a player call of the last execute raised a
\* stale-connection error.
StaleHandles ==
    {calls[i].handle : i \in {j \in 1..Len(calls) :
        /\ calls[j].obj = "player"
        /\ ~calls[j].ok
        /\ IsStale(outcomes[calls[j].attempt])}}

\* C34: when an execute has ended, by a return or by a raise, the cached
\* player handle is absent or is a handle on which no stale-connection
\* error was raised, also when both attempts failed stale.
C34_NoStaleHandleCached ==
    Executed => (_player = 0 \/ _player \notin StaleHandles)

\* The identifiers the forward map holds.
ForwardUris == {_cache[i].uri : i \in 1..Len(_cache)}

\* C35: every identifier of the reverse index is the value of a forward
\* entry, so the reverse index has no more entries than the forward map and
\* no more than the ceiling.
C35_ReverseWithinForward ==
    /\ DOMAIN _reverse \subseteq ForwardUris
    /\ Cardinality(DOMAIN _reverse) <= Len(_cache)
    /\ Cardinality(DOMAIN _reverse) <= _max_size

(***************************************************************************)
(* SpecQuery: a SpotifyExecutor under query commands whose mapping carries  *)
(* state modifier fields, and an action command that carries them.          *)
(***************************************************************************)
QueryCommands ==
    {[query |-> "get_devices"],
     [query |-> "get_devices", volume |-> 70, mode |-> "shuffle", device |-> Den],
     [query |-> "get_devices", volume_rel |-> 10],
     [query |-> "search", terms |-> <<xy>>, volume |-> 150],
     [query |-> "history", mode |-> "repeat"],
     [query |-> "recommend", target |-> playlistX, device |-> Den],
     [query |-> "now_playing", volume |-> 30],
     [query |-> "get_queue", mode |-> "shuffle", device |-> Den],
     [query |-> "library", type |-> albums, volume_rel |-> 10],
     [query |-> "bogus", volume |-> 70],
     [action |-> "pause", volume |-> 70, mode |-> "shuffle"]}

NextQuery == Execute(QueryCommands, InfoFaults)
SpecQuery == InitExec /\ [][NextQuery]_vars

IsQuery(c) == c # NoCmd /\ "action" \notin DOMAIN c /\ "query" \in DOMAIN c
ModifierCalls == {i \in 1..Len(calls) : IsModifierCall(calls[i])}

\* C36: the execute of a query command issues no set_volume, set_shuffle,
\* repeat_track or transfer_player call, in neither attempt, whatever
\* volume, volume_rel, mode or device fields its mapping carries; an action
\* command that returns issues the calls of the modifiers it carries.
C36_QueriesIssueNoModifierCall ==
    /\ (Executed /\ IsQuery(cmd)) => ModifierCalls = {}
    /\ (Returned /\ "action" \in DOMAIN cmd /\ "volume" \in DOMAIN cmd)
         => \E i \in ModifierCalls :
                calls[i].m = "set_volume" /\ calls[i].attempt = Len(outcomes) /\ calls[i].ok
C36_Witness ==
    /\ Returned
    /\ IsQuery(cmd)
    /\ cmd.query = "get_devices"
    /\ Modifiers \cap DOMAIN cmd = {"volume", "mode", "device"}
    /\ \E i \in 1..Len(calls) : calls[i].obj = "Player" /\ calls[i].ok
    /\ result.data # << >>

\* The methods of the player calls of an attempt, in the order issued.
PlayerMethodsOf(attempt) ==
    [i \in 1..Len(PlayerCallsOf(attempt, Len(calls))) |-> PlayerCallsOf(attempt, Len(calls))[i][1]]
\* The kind play works with: that of an identifier target, else the
\* command's kind, track by default.
PlayKind(c) == IF _is_uri(c.target) THEN _uri_kind(c.target) ELSE Get0(c, "kind", track)
\* The one path play takes for a command.
PlayPath(c) ==
    IF PlayKind(c) \in {album, playlist} THEN <<"play_context">>
    ELSE IF Len(Get0(c, "context", << >>)) > 0 THEN <<"play_track">>
    ELSE <<"add_to_queue", "skip_next">>

\* C37: an attempt of play that succeeds has issued to the player the calls
\* of exactly one path and no other: one play_context for an album or a
\* playlist, else one play_track when a context is given, else one
\* add_to_queue followed by one skip_next.
C37_PlayTakesOnePath ==
    (Returned /\ "action" \in DOMAIN cmd /\ cmd.action = "play") =>
        PlayerMethodsOf(Len(outcomes)) = PlayPath(cmd)
C37_Witness ==
    /\ Returned
    /\ cmd = [action |-> "play", target |-> ABc, context |-> playlistX]
    /\ Len(outcomes) = 2
    /\ PlayerCallsOf(2, Len(calls)) = <<<<"play_track", <<u1, playlistX>>>>>>

(***************************************************************************)
(* SpecCeiling: executors constructed with volume ceilings inside and       *)
(* outside 0.0..1.0, under commands with absolute and relative volumes.     *)
(***************************************************************************)
\* max_volume as passed to the constructor, in hundredths
CeilingInputs == {0 - 10, 0, 50, 100, 150}
CeilingCommands ==
    VolumeCommands \cup {[action |-> "set", volume_rel |-> 50],
                         [action |-> "resume", volume |-> 100, volume_rel |-> 10]}

InitCeiling ==
    /\ dev \in VolumeDevs
    /\ _path = FALSE
    /\ disk = NoFile
    /\ _max_size = _MAX_SIZE
    /\ \E mv \in CeilingInputs :
        \E es \in {__init__(_path, disk, mv, 0, FALSE, NoFault)} :
            /\ _player = es.player
            /\ players = es.players
            /\ _song = es.song
            /\ _artist = es.artist
            /\ _max_volume = es.max_volume
            /\ _cache = es.c.cache
            /\ _reverse = es.c.reverse
            /\ _dirty = es.c.dirty
            /\ recency = es.order
    /\ evicted = << >>
    /\ last = Op("__init__", << >>, << >>, << >>, TRUE)
    /\ ExecIdle

NextCeiling == Execute(CeilingCommands, Faults)
SpecCeiling == InitCeiling /\ [][NextCeiling]_vars

AllSetVolumeCalls == {i \in 1..Len(calls) : calls[i].obj = "player" /\ calls[i].m = "set_volume"}

\* C38: whatever ceiling the executor was constructed with, the ceiling it
\* keeps lies in 0.0..1.0, and every set_volume call it issues, for an
\* absolute or a relative volume and in either attempt, carries a fraction
\* from 0 up to that ceiling.
C38_VolumeWithinCeiling ==
    /\ 0 <= _max_volume /\ _max_volume <= Percent
    /\ \A i \in AllSetVolumeCalls :
        /\ 0 <= calls[i].arg[1]
        /\ calls[i].arg[1] <= Fraction(_max_volume)
        /\ calls[i].arg[1] <= Fraction(Percent)
C38_Witness ==
    /\ Returned
    /\ cmd = [action |-> "resume", volume |-> 100, volume_rel |-> 10]
    /\ _max_volume = 0
    /\ dev.volume = 62000
    /\ Cardinality(AllSetVolumeCalls) = 2
    /\ \A i \in AllSetVolumeCalls : calls[i].arg = <<0>> /\ calls[i].ok

\* The step is an execute that raises.
ExecuteRaises == cmd' # NoCmd /\ error' # NoErr
\* The entries of the forward map, whatever their order.
Entries(cache) == {cache[i] : i \in 1..Len(cache)}

\* C39 as stated: an execute that fails leaves the forward map, the reverse
\* index, the recency order and the durable record as they were before the
\* command.
C39_FailedExecuteLeavesCacheUnchanged ==
    [][ExecuteRaises =>
          /\ _cache' = _cache
          /\ _reverse' = _reverse
          /\ recency' = recency
          /\ disk' = disk]_vars

\* A cache save of the step's execute raised.
SaveRaised ==
    \E i \in 1..Len(calls') :
        calls'[i].obj = "cache" /\ calls'[i].m = "save" /\ ~calls'[i].ok
\* The forward keys of the items the search of the step's execute was
\* answered with: those with a name and an identifier, for each term whose
\* query returned.
Answered ==
    IF "query" \in DOMAIN cmd' /\ cmd'.query = "search" /\ SearchType(cmd') # artists
    THEN {<<SearchKind(SearchType(cmd')), Normalize(h.name)>> :
             h \in {hit \in UNION {Entries(SearchSection(calls'[i].arg[1], SearchType(cmd'))) :
                                       i \in {j \in 1..Len(calls') :
                                                 calls'[j].m = "query_songs" /\ calls'[j].ok}} :
                       Len(hit.name) > 0 /\ Len(hit.uri) > 0}}
    ELSE {}

\* C39 as amended: an execute that fails undoes nothing in the cache: the
\* forward keys that were there are still there, and so are the names of
\* the items its search was answered with before the failure; the durable
\* record is as it was unless a cache save itself raised.
C39_FailedExecuteUndoesNothing ==
    [][ExecuteRaises =>
          /\ ~SaveRaised => disk' = disk
          /\ KeySet(_cache) \subseteq KeySet(_cache')
          /\ Answered \subseteq KeySet(_cache')]_vars
\* A search of two terms failed on the second: the name the first was
\* answered with is cached, and no record has been written.
C39_Witness ==
    /\ Executed
    /\ error # NoErr
    /\ cmd = [query |-> "search", terms |-> <<abcd, xy>>]
    /\ \E i \in 1..Len(calls) : calls[i].m = "query_songs" /\ calls[i].arg = <<abcd>> /\ calls[i].ok
    /\ Has(_cache, <<track, abcd>>)
    /\ disk = NoFile

\* The cache a new NameCache loads from the durable record as it is now.
Reloaded == _load(_path, disk, _max_size)

\* C40: after an execute that returns, on an executor with a location, the
\* cache loaded from the durable record has its keys in the recency order
\* of the cache in memory.
C40_ReloadKeepsRecency ==
    (Returned /\ _path) => Keys(Reloaded.cache) = Keys(_cache)
====
